---------------------------- MODULE Spec2Model ----------------------------
(***************************************************************************)
(* GeoViz3D: the feature classification pipeline of                        *)
(* src/utils/data_processing.py and the elevation service it calls         *)
(* (src/services/elevation_service.py).                                    *)
(*                                                                         *)
(* Python values are modelled as follows.                                  *)
(*   str    a sequence of atoms; an atom is one character, or one word     *)
(*          whose letters never occur apart ("inf", "nan", "cafe").  The   *)
(*          empty string is << >>.                                         *)
(*   dict   a function from its keys; a missing key is a key outside       *)
(*          DOMAIN.  The empty dict is << >>.                              *)
(*   list   a sequence.                                                    *)
(*   float  a record [k, n]: k = "fin" with n the value in units of        *)
(*          1/NumScale, k = "inf" with n the sign, or k = "nan".           *)
(*   None   the record None.                                               *)
(* A call ends in an outcome: [kind |-> "return", val |-> v] or            *)
(* [kind |-> "raise", exc |-> e].                                          *)
(***************************************************************************)
EXTENDS Integers, Sequences, FiniteSets, TLC

VARIABLES
    op,                 \* the function called last ("idle" before any call)
    arg,                \* its arguments
    ret,                \* its outcome
    buildings,          \* the list `buildings` the call appended to
    roads,              \* the list `roads`
    points,             \* the list `points`
    polygons,           \* the list `polygons`
    terrain_elevation,  \* the field `terrain_elevation` of a GeoDataCollection
    elevation_cache,    \* the module-level dict of elevation_service.py
    elevation_calls,    \* how often the last call called get_elevation_data
    provider_requests,  \* the requests the last call sent to its provider
    query_cache,        \* the module-level dict of overpass_service.py
    geocode_cache,      \* the module-level dict of geocoding_service.py
    now,                \* time.time(), in seconds
    sleeps              \* the time.sleep() durations of the last call

vars == <<op, arg, ret, buildings, roads, points, polygons, terrain_elevation,
          elevation_cache, elevation_calls, provider_requests,
          query_cache, geocode_cache, now, sleeps>>

\* The state of the query and geocoding services.
services == <<query_cache, geocode_cache, now, sleeps>>

lists == <<buildings, roads, points, polygons>>

-----------------------------------------------------------------------------
(* Bounds of the checked instances.                                        *)

\* Longest tag value (in atoms) of the `height` and `building:levels` tags.
MaxStrLen == 3

\* Longest `geometry` list of a way.
MaxGeom == 4

\* The last second at which a call of a service begins.
MaxTime == 3

-----------------------------------------------------------------------------
(* Python values.                                                          *)

None == [py |-> "None"]

EmptyDict == << >>

Return(v) == [kind |-> "return", val |-> v]

Raise(e) == [kind |-> "raise", exc |-> e]

\* The outcome of a try block that ran to its end without returning.
Pass == [kind |-> "pass"]

\* dict.get(key, default)
Get(d, key, default) == IF key \in DOMAIN d THEN d[key] ELSE default

\* Truthiness of a str, list or dict: non-empty.
Truthy(v) == DOMAIN v # {}

\* `a or b` on values of these types.
Or(a, b) == IF Truthy(a) THEN a ELSE b

\* F(v), with v evaluated once: a value computed by one statement and read
\* by several later ones.
Bind(v, F(_)) == CHOOSE y \in {F(x) : x \in {v}} : TRUE

\* try: body / except caught: pass
Except(body, caught) ==
    IF body.kind = "raise" /\ body.exc \in caught THEN Pass ELSE body

-----------------------------------------------------------------------------
(* float: fixed point with NumScale units per 1, plus inf and nan.         *)

NumScale == 10 ^ MaxStrLen

Fin(n) == [k |-> "fin", n |-> n]

Num(i) == Fin(i * NumScale)

Inf(sign) == [k |-> "inf", n |-> sign]

NaN == [k |-> "nan", n |-> 0]

Sign(a) == IF a.n < 0 THEN -1 ELSE 1

IsZero(a) == a.k = "fin" /\ a.n = 0

\* float.__mul__ (IEEE 754): nan is contagious, inf * 0 is nan.
Mul(a, b) ==
    IF a.k = "nan" \/ b.k = "nan" THEN NaN
    ELSE IF a.k = "inf" \/ b.k = "inf"
         THEN IF IsZero(a) \/ IsZero(b) THEN NaN ELSE Inf(Sign(a) * Sign(b))
         ELSE Fin((a.n \div NumScale) * b.n + ((a.n % NumScale) * b.n) \div NumScale)

IsFinite(a) == a.k = "fin"

\* a >= 0 (False for nan, True for -0.0).
NonNegative(a) == a.k # "nan" /\ a.n >= 0

-----------------------------------------------------------------------------
(* str methods and float(str).                                             *)

Whitespace == {" "}

DigitValue == [c \in {"0", "1", "2", "3", "4", "5", "6", "7", "8", "9"} |->
                 CASE c = "0" -> 0 [] c = "1" -> 1 [] c = "2" -> 2 [] c = "3" -> 3
                   [] c = "4" -> 4 [] c = "5" -> 5 [] c = "6" -> 6 [] c = "7" -> 7
                   [] c = "8" -> 8 [] c = "9" -> 9]

Digits == DOMAIN DigitValue

SetMin(S) == CHOOSE x \in S : \A y \in S : x <= y

SetMax(S) == CHOOSE x \in S : \A y \in S : x >= y

\* str.strip(): leading and trailing whitespace removed.
strip(s) ==
    LET keep == {i \in 1..Len(s) : s[i] \notin Whitespace}
    IN  IF keep = {} THEN << >> ELSE SubSeq(s, SetMin(keep), SetMax(keep))

\* str.split(): the maximal runs of non-whitespace, in order.
RECURSIVE split(_)
split(s) ==
    IF s = << >> THEN << >>
    ELSE IF s[1] \in Whitespace THEN split(Tail(s))
    ELSE LET ws == {i \in 1..Len(s) : s[i] \in Whitespace}
             n  == IF ws = {} THEN Len(s) ELSE SetMin(ws) - 1
         IN  <<SubSeq(s, 1, n)>> \o split(SubSeq(s, n + 1, Len(s)))

\* list[0]
Index0(l) == IF l = << >> THEN Raise("IndexError") ELSE Return(l[1])

\* digits [. [digits]] or . digits
IsDecimal(b) ==
    /\ \A i \in 1..Len(b) : b[i] \in Digits \cup {"."}
    /\ Cardinality({i \in 1..Len(b) : b[i] = "."}) <= 1
    /\ \E i \in 1..Len(b) : b[i] \in Digits

RECURSIVE SumDigits(_, _, _)
SumDigits(b, dot, i) ==
    IF i > Len(b) THEN 0
    ELSE SumDigits(b, dot, i + 1) +
         (IF i < dot THEN DigitValue[b[i]] * NumScale * 10 ^ (dot - 1 - i)
          ELSE IF i > dot THEN (DigitValue[b[i]] * NumScale) \div 10 ^ (i - dot)
          ELSE 0)

\* The value of a decimal literal, in units of 1/NumScale.
DecimalValue(b) ==
    LET dots == {i \in 1..Len(b) : b[i] = "."}
        dot  == IF dots = {} THEN Len(b) + 1 ELSE SetMin(dots)
    IN  SumDigits(b, dot, 1)

\* float(s): whitespace stripped, then [-] (inf | nan | decimal); anything
\* else is a ValueError.
float(s) ==
    LET t    == strip(s)
        neg  == t # << >> /\ t[1] = "-"
        body == IF neg THEN Tail(t) ELSE t
        sign == IF neg THEN -1 ELSE 1
    IN  IF body = <<"inf">> THEN Return(Inf(sign))
        ELSE IF body = <<"nan">> THEN Return(NaN)
        ELSE IF IsDecimal(body) THEN Return(Fin(sign * DecimalValue(body)))
        ELSE Raise("ValueError")

-----------------------------------------------------------------------------
(* estimate_building_height, get_building_color, get_road_width.           *)

base_heights ==
    [t \in {<<"apartments">>, <<"residential">>, <<"house">>, <<"detached">>,
            <<"commercial">>, <<"industrial">>, <<"office">>, <<"retail">>,
            <<"warehouse">>, <<"church">>, <<"cathedral">>, <<"mosque">>,
            <<"temple">>, <<"synagogue">>, <<"school">>, <<"university">>,
            <<"hospital">>, <<"hotel">>, <<"train_station">>, <<"stadium">>,
            <<"yes">>} |->
        CASE t \in {<<"apartments">>, <<"office">>, <<"church">>, <<"mosque">>,
                    <<"temple">>, <<"synagogue">>, <<"hospital">>, <<"hotel">>} -> 15
          [] t \in {<<"residential">>, <<"industrial">>, <<"warehouse">>, <<"yes">>} -> 8
          [] t \in {<<"house">>, <<"detached">>, <<"retail">>} -> 6
          [] t = <<"commercial">> -> 10
          [] t = <<"cathedral">> -> 25
          [] t = <<"school">> -> 9
          [] t \in {<<"university">>, <<"train_station">>} -> 12
          [] t = <<"stadium">> -> 20]

\* A handler that forgets the IndexError of split()[0] on a blank value.
HeightExceptValueErrorOnly == {"ValueError"}

\* The exceptions the two try blocks catch.
HeightExcept == {"ValueError", "IndexError"}

LevelsExcept == {"ValueError"}

\* try: height_str = tags["height"].split()[0]; return float(height_str) * height_factor
TryHeight(tags, height_factor) ==
    LET height_str == Index0(split(tags["height"]))
        h == IF height_str.kind = "raise" THEN height_str ELSE float(height_str.val)
    IN  IF h.kind = "raise" THEN h ELSE Return(Mul(h.val, height_factor))

\* try: levels = float(tags["building:levels"]); return levels * 3 * height_factor
TryLevels(tags, height_factor) ==
    LET levels == float(tags["building:levels"])
    IN  IF levels.kind = "raise" THEN levels
        ELSE Return(Mul(Mul(levels.val, Num(3)), height_factor))

TryTypeDefault(tags, height_factor) ==
    LET building_type == Get(tags, "building", <<"yes">>)
        base_height   == Get(base_heights, building_type, 8)
    IN  Return(Mul(Num(base_height), height_factor))

\* The chain with `building:levels` consulted before `height`.
estimate_building_height_levels_first(tags, height_factor) ==
    LET h == IF "height" \in DOMAIN tags
             THEN Except(TryHeight(tags, height_factor), HeightExcept)
             ELSE Pass
        l == IF "building:levels" \in DOMAIN tags
             THEN Except(TryLevels(tags, height_factor), LevelsExcept)
             ELSE Pass
    IN  IF l.kind # "pass" THEN l
        ELSE IF h.kind # "pass" THEN h
        ELSE TryTypeDefault(tags, height_factor)

estimate_building_height(tags, height_factor) ==
    LET h == IF "height" \in DOMAIN tags
             THEN Except(TryHeight(tags, height_factor), HeightExcept)
             ELSE Pass
        l == IF "building:levels" \in DOMAIN tags
             THEN Except(TryLevels(tags, height_factor), LevelsExcept)
             ELSE Pass
    IN  IF h.kind # "pass" THEN h
        ELSE IF l.kind # "pass" THEN l
        ELSE TryTypeDefault(tags, height_factor)

DefaultColor == <<74, 140, 247, 200>>

color_scheme ==
    [t \in DOMAIN base_heights |->
        CASE t \in {<<"apartments">>, <<"residential">>} -> <<102, 102, 156, 200>>
          [] t \in {<<"house">>, <<"detached">>} -> <<119, 119, 165, 200>>
          [] t = <<"commercial">> -> <<99, 99, 184, 200>>
          [] t \in {<<"industrial">>, <<"warehouse">>} -> <<150, 150, 150, 200>>
          [] t = <<"office">> -> <<74, 140, 247, 200>>
          [] t = <<"retail">> -> <<61, 129, 224, 200>>
          [] t \in {<<"church">>, <<"cathedral">>, <<"mosque">>, <<"temple">>,
                    <<"synagogue">>} -> <<251, 140, 0, 200>>
          [] t = <<"school">> -> <<255, 128, 128, 200>>
          [] t = <<"university">> -> <<255, 100, 100, 200>>
          [] t = <<"hospital">> -> <<226, 122, 171, 200>>
          [] t \in {<<"hotel">>, <<"train_station">>} -> <<51, 163, 255, 200>>
          [] t = <<"stadium">> -> <<54, 202, 155, 200>>
          [] t = <<"yes">> -> DefaultColor]

get_building_color(tags) ==
    Get(color_scheme, Get(tags, "building", <<"yes">>), DefaultColor)

\* n / 2 as a float.
Halves(n) == Fin((n * NumScale) \div 2)

width_scheme ==
    [t \in {<<"motorway">>, <<"trunk">>, <<"primary">>, <<"secondary">>,
            <<"tertiary">>, <<"residential">>, <<"service">>, <<"footway">>,
            <<"cycleway">>, <<"path">>, <<"track">>, <<"unclassified">>,
            <<"road">>} |->
        CASE t = <<"motorway">> -> Halves(8)
          [] t = <<"trunk">> -> Halves(7)
          [] t = <<"primary">> -> Halves(6)
          [] t = <<"secondary">> -> Halves(5)
          [] t = <<"tertiary">> -> Halves(4)
          [] t \in {<<"residential">>, <<"unclassified">>, <<"road">>} -> Halves(3)
          [] t \in {<<"service">>, <<"track">>} -> Halves(2)
          [] t \in {<<"footway">>, <<"cycleway">>, <<"path">>} -> Halves(1)]

get_road_width(highway_type) == Get(width_scheme, highway_type, Halves(3))

-----------------------------------------------------------------------------
(* process_node, process_way and the three feature builders.  The lists    *)
(* the Python functions append to are the fields of L; a call returns the  *)
(* lists as it leaves them.                                                *)

\* `tags.get(key) or rest`: a missing key gives None, which is falsy like "".
GetOr(tags, key, rest) ==
    IF key \in DOMAIN tags /\ Truthy(tags[key]) THEN tags[key] ELSE rest

\* The capital of an atom's first letter.
UpperAtom(a) ==
    CASE a = "cafe" -> "Cafe" [] a = "bakery" -> "Bakery" [] a = "museum" -> "Museum"
      [] a = "castle" -> "Castle" [] a = "park" -> "Park" [] a = "point" -> "Point"
      [] a = "forest" -> "Forest" [] a = "water" -> "Water" [] a = "other" -> "Other"
      [] a = "road" -> "Road" [] a = "primary" -> "Primary" [] a = "footway" -> "Footway"
      [] a = "m" -> "M"
      [] OTHER -> a

\* str.capitalize(): first letter upper case (the atoms are lower case already).
capitalize(s) == IF s = << >> THEN s ELSE <<UpperAtom(s[1])>> \o Tail(s)

\* The chain with `shop` consulted before `amenity`.
process_node_shop_first(element, L) ==
    LET tags == Get(element, "tags", EmptyDict)
        point_type ==
            GetOr(tags, "shop",
            GetOr(tags, "amenity",
            GetOr(tags, "tourism",
            GetOr(tags, "historic",
            GetOr(tags, "leisure", <<"point">>)))))
        name == Get(tags, "name", capitalize(point_type))
    IN  IF ~Truthy(tags) THEN Return(L)
        ELSE IF "lon" \notin DOMAIN element \/ "lat" \notin DOMAIN element
        THEN Raise("KeyError")
        ELSE Return([L EXCEPT !.points = Append(@,
                 [coordinates |-> <<element["lon"], element["lat"]>>,
                  name        |-> name,
                  type        |-> point_type,
                  element_id  |-> Get(element, "id", None),
                  tags        |-> tags])])

process_node(element, L) ==
    LET tags == Get(element, "tags", EmptyDict)
        point_type ==
            GetOr(tags, "amenity",
            GetOr(tags, "shop",
            GetOr(tags, "tourism",
            GetOr(tags, "historic",
            GetOr(tags, "leisure", <<"point">>)))))
        name == Get(tags, "name", capitalize(point_type))
    IN  IF ~Truthy(tags) THEN Return(L)
        ELSE IF "lon" \notin DOMAIN element \/ "lat" \notin DOMAIN element
        THEN Raise("KeyError")
        ELSE Return([L EXCEPT !.points = Append(@,
                 [coordinates |-> <<element["lon"], element["lat"]>>,
                  name        |-> name,
                  type        |-> point_type,
                  element_id  |-> Get(element, "id", None),
                  tags        |-> tags])])

process_building(element, coords, L, building_height_factor) ==
    LET tags   == Get(element, "tags", EmptyDict)
        height == estimate_building_height(tags, building_height_factor)
    IN  IF height.kind = "raise" THEN height
        ELSE Return([L EXCEPT !.buildings = Append(@,
                 [coordinates |-> coords,
                  name        |-> Get(tags, "name", <<"Building">>),
                  height      |-> height.val,
                  element_id  |-> Get(element, "id", None),
                  color       |-> get_building_color(tags),
                  tags        |-> tags])])

\* A variant whose default name is the highway type as it stands.
process_road_plain_name(element, coords, L) ==
    LET tags         == Get(element, "tags", EmptyDict)
        highway_type == Get(tags, "highway", <<"road">>)
    IN  Return([L EXCEPT !.roads = Append(@,
            [coordinates |-> coords,
             name        |-> Get(tags, "name", highway_type),
             width       |-> get_road_width(highway_type),
             element_id  |-> Get(element, "id", None),
             type        |-> highway_type,
             tags        |-> tags])])

process_road(element, coords, L) ==
    LET tags         == Get(element, "tags", EmptyDict)
        highway_type == Get(tags, "highway", <<"road">>)
    IN  Return([L EXCEPT !.roads = Append(@,
            [coordinates |-> coords,
             name        |-> Get(tags, "name", capitalize(highway_type)),
             width       |-> get_road_width(highway_type),
             element_id  |-> Get(element, "id", None),
             type        |-> highway_type,
             tags        |-> tags])])

\* The chain with `natural` consulted before `landuse`.
process_polygon_natural_first(element, coords, L) ==
    LET tags == Get(element, "tags", EmptyDict)
        polygon_type ==
            GetOr(tags, "natural",
            GetOr(tags, "landuse",
            GetOr(tags, "leisure", <<"other">>)))
    IN  Return([L EXCEPT !.polygons = Append(@,
            [coordinates |-> coords,
             name        |-> Get(tags, "name", capitalize(polygon_type) \o <<" Area">>),
             type        |-> polygon_type,
             element_id  |-> Get(element, "id", None),
             tags        |-> tags])])

process_polygon(element, coords, L) ==
    LET tags == Get(element, "tags", EmptyDict)
        polygon_type ==
            GetOr(tags, "landuse",
            GetOr(tags, "natural",
            GetOr(tags, "leisure", <<"other">>)))
    IN  Return([L EXCEPT !.polygons = Append(@,
            [coordinates |-> coords,
             name        |-> Get(tags, "name", capitalize(polygon_type) \o <<" Area">>),
             type        |-> polygon_type,
             element_id  |-> Get(element, "id", None),
             tags        |-> tags])])

\* coords: [lon, lat] of every entry of `geometry` that has both keys.
WayCoords(element) ==
    LET geometry == Get(element, "geometry", << >>)
        ok(ref)  == "lat" \in DOMAIN ref /\ "lon" \in DOMAIN ref
        refs     == SelectSeq(geometry, ok)
    IN  [i \in 1..Len(refs) |-> <<refs[i]["lon"], refs[i]["lat"]>>]

\* The cascade with the `highway` test before the `building` test.
process_way_highway_first(element, L, building_height_factor) ==
    LET tags   == Get(element, "tags", EmptyDict)
        coords == WayCoords(element)
    IN  IF ~Truthy(coords) THEN Return(L)
        ELSE IF "highway" \in DOMAIN tags
             THEN process_road(element, coords, L)
        ELSE IF "building" \in DOMAIN tags
             THEN process_building(element, coords, L, building_height_factor)
        ELSE IF Truthy(Get(element, "geometry", << >>)) /\ coords[1] = coords[Len(coords)]
             THEN process_polygon(element, coords, L)
        ELSE Return(L)

\* A variant whose test for a closed way is an `if` of its own: a closed
\* building or road is a polygon as well.
process_way_polygon_too(element, L, building_height_factor) ==
    LET tags   == Get(element, "tags", EmptyDict)
        coords == WayCoords(element)
        first  == IF "building" \in DOMAIN tags
                  THEN process_building(element, coords, L, building_height_factor)
                  ELSE IF "highway" \in DOMAIN tags
                  THEN process_road(element, coords, L)
                  ELSE Return(L)
    IN  IF ~Truthy(coords) THEN Return(L)
        ELSE IF first.kind = "raise" THEN first
        ELSE IF Truthy(Get(element, "geometry", << >>)) /\ coords[1] = coords[Len(coords)]
             THEN process_polygon(element, coords, first.val)
        ELSE first

process_way(element, L, building_height_factor) ==
    LET tags   == Get(element, "tags", EmptyDict)
        coords == WayCoords(element)
    IN  IF ~Truthy(coords) THEN Return(L)
        ELSE IF "building" \in DOMAIN tags
             THEN process_building(element, coords, L, building_height_factor)
        ELSE IF "highway" \in DOMAIN tags
             THEN process_road(element, coords, L)
        ELSE IF Truthy(Get(element, "geometry", << >>)) /\ coords[1] = coords[Len(coords)]
             THEN process_polygon(element, coords, L)
        ELSE Return(L)

-----------------------------------------------------------------------------
(* get_elevation_data (src/services/elevation_service.py).  Coordinates    *)
(* are integers in units of 1e-6 degree.  The provider's answer is the     *)
(* environment's: resp.kind = "error" is any failure of the request        *)
(* (timeout, HTTP error, network error, unreadable body); otherwise the    *)
(* body lists the elevations of terrain resp.terrain for the requested     *)
(* locations, resp.short of them missing at the end.                       *)

\* MAX_ELEVATION_POINTS of the environment (default 100), set to 3 here.
MAX_ELEVATION_POINTS == 3

\* f"{x:.5f}": x rounded to 5 decimals, in units of 1e-5 degree.
Format5(x) == (x + 5) \div 10

\* A variant whose key is the coordinate as it stands.
cache_key_unrounded(coord) == <<coord[1], coord[2]>>

cache_key(coord) == <<Format5(coord[1]), Format5(coord[2])>>

\* The elevation (an integer number of meters) the provider knows for a location.
Terrain(t, coord) == t * (1 + ((coord[1] + 2 * coord[2]) % 7))

\* np.linspace(0, n - 1, num, dtype=int)[i], i from 0.
Linspace(n, num, i) == IF num = 1 THEN 0 ELSE (i * (n - 1)) \div (num - 1)

\* An Optional elevation: << >> is None, <<e>> is e.
Some(e) == <<e>>

\* The entries of the body's `results` list that the loop gets through: all
\* of them (resp.short fewer than asked for) in an "ok" body, and those
\* before the entry that is not a dict (resp.good of them) in a "garbled"
\* body, where result.get raises AttributeError, which the handler catches.
\* In a "bare" body every entry is a dict without `elevation`.
ProviderResults(resp, coords_to_fetch) ==
    LET n == Len(coords_to_fetch)
        m == IF resp.kind = "garbled"
             THEN (IF resp.good < n THEN resp.good ELSE n)
             ELSE (IF n >= resp.short THEN n - resp.short ELSE 0)
    IN  IF resp.kind = "bare" THEN [i \in 1..n |-> EmptyDict]
        ELSE [i \in 1..m |-> [elevation |-> Terrain(resp.terrain, coords_to_fetch[i])]]

\* dict[key] = value
Put(d, key, value) == [k \in DOMAIN d \cup {key} |-> IF k = key THEN value ELSE d[k]]

\* The loop over enumerate(results), from result i on; st is [elevations,
\* cache].  coords_indices[i] past the end is an IndexError, which the
\* handler catches: the loop ends there.
RECURSIVE StoreResults(_, _, _, _, _)
StoreResults(results, i, coords_to_fetch, coords_indices, st) ==
    IF i > Len(results) \/ i > Len(coords_indices) THEN st
    ELSE Bind([elevations |->
                  [st.elevations EXCEPT ![coords_indices[i]] =
                      Some(Get(results[i], "elevation", 0))],
               cache |->
                  Put(st.cache, cache_key(coords_to_fetch[i]),
                      Get(results[i], "elevation", 0))],
              LAMBDA st1 :
                StoreResults(results, i + 1, coords_to_fetch, coords_indices, st1))

\* A variant that keeps the first MAX_ELEVATION_POINTS coordinates.
DownsampleFirst(coords_list) ==
    IF Len(coords_list) > MAX_ELEVATION_POINTS
    THEN SubSeq(coords_list, 1, MAX_ELEVATION_POINTS)
    ELSE coords_list

\* np.linspace sampling when the list is longer than MAX_ELEVATION_POINTS.
Downsample(coords_list) ==
    IF Len(coords_list) > MAX_ELEVATION_POINTS
    THEN [i \in 1..MAX_ELEVATION_POINTS |->
             coords_list[Linspace(Len(coords_list), MAX_ELEVATION_POINTS, i - 1) + 1]]
    ELSE coords_list

\* A variant of the fill that writes 0 over every slot.
FillZerosAll(elevations) == [i \in 1..Len(elevations) |-> 0]

\* 0 for every slot that is still None (the handler's loop and the final
\* list comprehension do the same).
FillZeros(elevations) ==
    [i \in 1..Len(elevations) |->
        IF elevations[i] = << >> THEN 0 ELSE elevations[i][1]]

\* The part after sampling: cache lookup, the request, the fill with zeros.
FetchElevations(coords_list, cache, resp) ==
    LET isMiss(c) == cache_key(c) \notin DOMAIN cache
        elevations0 == [i \in 1..Len(coords_list) |->
                           IF isMiss(coords_list[i]) THEN << >>
                           ELSE Some(cache[cache_key(coords_list[i])])]
        coords_to_fetch == SelectSeq(coords_list, isMiss)
        missAt(i)       == isMiss(coords_list[i])
        coords_indices  == SelectSeq([i \in 1..Len(coords_list) |-> i], missAt)
    IN  IF coords_to_fetch = << >>
        THEN [out |-> Return(FillZeros(elevations0)), cache |-> cache, requests |-> << >>]
        ELSE IF resp.kind = "error"
        THEN [out |-> Return(FillZeros(elevations0)), cache |-> cache,
              requests |-> <<coords_to_fetch>>]
        ELSE Bind(StoreResults(ProviderResults(resp, coords_to_fetch), 1,
                               coords_to_fetch, coords_indices,
                               [elevations |-> elevations0, cache |-> cache]),
                  LAMBDA st :
                    [out |-> Return(FillZeros(st.elevations)), cache |-> st.cache,
                     requests |-> <<coords_to_fetch>>])

\* [out: the outcome, cache: elevation_cache afterwards, requests: the
\* location lists posted to the provider]
get_elevation_data(coords_list, cache, resp) ==
    IF coords_list = << >>
    THEN [out |-> Return(<< >>), cache |-> cache, requests |-> << >>]
    ELSE Bind(Downsample(coords_list),
              LAMBDA sampled : FetchElevations(sampled, cache, resp))

-----------------------------------------------------------------------------
(* process_overpass_results.                                               *)

\* MAX_FEATURES of the environment (default 1000), set to 2 here.
MAX_FEATURES == 2

\* The slice all_coords[:100], scaled like MAX_ELEVATION_POINTS.
TerrainSlice == 3

EmptyLists == [buildings |-> << >>, roads |-> << >>, points |-> << >>,
               polygons |-> << >>]

IsType(element, t) == "type" \in DOMAIN element /\ element["type"] = t

\* The body of `for element in elements`.
ProcessElement(element, L, building_height_factor) ==
    IF IsType(element, <<"node">>) /\ "lat" \in DOMAIN element /\ "lon" \in DOMAIN element
    THEN process_node(element, L)
    ELSE IF IsType(element, <<"way">>) /\ "nodes" \in DOMAIN element
    THEN process_way(element, L, building_height_factor)
    ELSE Return(L)

RECURSIVE ProcessElements(_, _, _, _)
ProcessElements(elements, i, L, building_height_factor) ==
    IF i > Len(elements) THEN Return(L)
    ELSE Bind(ProcessElement(elements[i], L, building_height_factor),
              LAMBDA r : IF r.kind = "raise" THEN r
                         ELSE ProcessElements(elements, i + 1, r.val,
                                              building_height_factor))

RECURSIVE Flatten(_)
Flatten(ll) == IF ll = << >> THEN << >> ELSE Head(ll) \o Flatten(Tail(ll))

RECURSIVE Sum(_)
Sum(l) == IF l = << >> THEN 0 ELSE Head(l) + Sum(Tail(l))

\* l[:n]
Slice(l, n) == SubSeq(l, 1, IF Len(l) < n THEN Len(l) ELSE n)

\* sum(elevations) / len(elevations)
Mean(elevations) == Fin((Sum(elevations) * NumScale) \div Len(elevations))

\* `not data`: None or an empty dict.
Falsy(data) == DOMAIN data = {} \/ "py" \in DOMAIN data

\* if not data or "elements" not in data
NoElements(data) == Falsy(data) \/ "elements" \notin DOMAIN data

\* A variant that answers an unusable response with an empty collection.
NoResultEmptyCollection ==
    Return([buildings |-> << >>, roads |-> << >>, points |-> << >>,
            polygons |-> << >>, terrain_elevation |-> Num(0)])

\* return None
NoResult == Return(None)

\* A variant whose slice keeps one element too many.
CapElementsOneMore(elements) ==
    IF Len(elements) > MAX_FEATURES THEN Slice(elements, MAX_FEATURES + 1) ELSE elements

\* elements[:MAX_FEATURES] when len(elements) > MAX_FEATURES
CapElements(elements) ==
    IF Len(elements) > MAX_FEATURES THEN Slice(elements, MAX_FEATURES) ELSE elements

\* A variant that hands all the coordinates to the elevation service.
SampleTerrainNoSlice(L, cache, resp) ==
    Bind(Flatten([i \in 1..Len(L.buildings) |-> L.buildings[i]["coordinates"]]),
         LAMBDA all_coords :
           IF Truthy(L.buildings) /\ \A i \in 1..Len(all_coords) : Truthy(all_coords[i])
           THEN Bind(get_elevation_data(all_coords, cache, resp),
                     LAMBDA elev :
                       [out |-> Return([buildings |-> L.buildings, roads |-> L.roads,
                                        points |-> L.points, polygons |-> L.polygons,
                                        terrain_elevation |->
                                            IF Truthy(elev.out.val)
                                            THEN Mean(elev.out.val) ELSE Num(0)]),
                        L |-> L, cache |-> elev.cache, calls |-> 1,
                        requests |-> elev.requests])
           ELSE [out |-> Return([buildings |-> L.buildings, roads |-> L.roads,
                                 points |-> L.points, polygons |-> L.polygons,
                                 terrain_elevation |-> Num(0)]),
                 L |-> L, cache |-> cache, calls |-> 0, requests |-> << >>])

\* The part after the loop, L being the four lists: the terrain elevation
\* and the returned dict.
SampleTerrain(L, cache, resp) ==
    Bind(Flatten([i \in 1..Len(L.buildings) |-> L.buildings[i]["coordinates"]]),
         LAMBDA all_coords :
           IF Truthy(L.buildings) /\ \A i \in 1..Len(all_coords) : Truthy(all_coords[i])
           THEN Bind(get_elevation_data(Slice(all_coords, TerrainSlice), cache, resp),
                     LAMBDA elev :
                       [out |-> Return([buildings |-> L.buildings, roads |-> L.roads,
                                        points |-> L.points, polygons |-> L.polygons,
                                        terrain_elevation |->
                                            IF Truthy(elev.out.val)
                                            THEN Mean(elev.out.val) ELSE Num(0)]),
                        L |-> L, cache |-> elev.cache, calls |-> 1,
                        requests |-> elev.requests])
           ELSE [out |-> Return([buildings |-> L.buildings, roads |-> L.roads,
                                 points |-> L.points, polygons |-> L.polygons,
                                 terrain_elevation |-> Num(0)]),
                 L |-> L, cache |-> cache, calls |-> 0, requests |-> << >>])

\* [out: the outcome, L: the four lists, cache, calls: the calls of
\* get_elevation_data, requests]
process_overpass_results(data, building_height_factor, cache, resp) ==
    IF NoElements(data)
    THEN [out |-> NoResult, L |-> EmptyLists, cache |-> cache,
          calls |-> 0, requests |-> << >>]
    ELSE Bind(ProcessElements(CapElements(data["elements"]), 1, EmptyLists,
                              building_height_factor),
              LAMBDA loop :
                IF loop.kind = "raise"
                THEN [out |-> loop, L |-> EmptyLists, cache |-> cache,
                      calls |-> 0, requests |-> << >>]
                ELSE SampleTerrain(loop.val, cache, resp))

-----------------------------------------------------------------------------
(* The inputs of the checked instances.                                    *)

\* All strings of at most n atoms.
Strings(atoms, n) == UNION {[1..k -> atoms] : k \in 0..n}

\* An optional value: << >> is absent, <<v>> is v.
Present(o) == o # << >>

\* The dict with the keys of `keys` whose option in `val` is present.
DictOf(keys, val) == [k \in {x \in keys : Present(val[x])} |-> val[k][1]]

\* Atoms of the numeric tag values: digits, point, sign, blank, a unit
\* letter, and the words float() knows.
NumAtoms == {"0", "1", ".", "-", " ", "m", "inf", "nan"}

AllNumStrings == {<<s>> : s \in Strings(NumAtoms, MaxStrLen)} \cup {<< >>}

\* absent, well-formed, malformed, empty
FewNumStrings == {<< >>, << <<"1">> >>, << <<"m">> >>, << << >> >>}

\* listed in base_heights, listed with another height, not listed
BuildingTypes == {<<"yes">>, <<"cathedral">>, <<"hut">>}

\* The tags of a building with optional `height` and `building:levels`.
HeightTags(b, h, l) ==
    DictOf({"building", "height", "building:levels"},
           [k \in {"building", "height", "building:levels"} |->
               IF k = "building" THEN <<b>> ELSE IF k = "height" THEN h ELSE l])

Factors == {Num(0), Num(1), Num(2)}

\* A closed ring of three distinct vertices, in `geometry` form.
Ring == <<[lat |-> 0, lon |-> 0], [lat |-> 0, lon |-> 10],
          [lat |-> 10, lon |-> 0], [lat |-> 0, lon |-> 0]>>

BuildingWay(tags) ==
    [type |-> <<"way">>, id |-> 1, nodes |-> <<1, 2, 3, 1>>, geometry |-> Ring,
     tags |-> tags]

\* The provider's possible answers.
Responses ==
    {[kind |-> "error", short |-> 0, terrain |-> 0]}
    \cup {[kind |-> "ok", short |-> sh, terrain |-> t] : sh \in 0..1, t \in 1..2}

NoRet == [kind |-> "none"]

-----------------------------------------------------------------------------
(* SpecHeight: estimate_building_height, alone and inside the pipeline,    *)
(* over the tag values of HeightTags.                                      *)

\* Both caches empty at import, no call made yet.
ServicesInit ==
    /\ query_cache = << >>
    /\ geocode_cache = EmptyDict
    /\ now = 0
    /\ sleeps = << >>

InitHeight ==
    /\ ServicesInit
    /\ op = "idle"
    /\ \E f \in Factors :
         \/ \E h \in AllNumStrings, l \in FewNumStrings :
              arg = [tags |-> HeightTags(<<"yes">>, h, l), height_factor |-> f]
         \/ \E h \in FewNumStrings, l \in AllNumStrings :
              arg = [tags |-> HeightTags(<<"yes">>, h, l), height_factor |-> f]
         \/ \E b \in BuildingTypes, h \in FewNumStrings, l \in FewNumStrings :
              arg = [tags |-> HeightTags(b, h, l), height_factor |-> f]
    /\ ret = NoRet
    /\ buildings = << >> /\ roads = << >> /\ points = << >> /\ polygons = << >>
    /\ terrain_elevation = 0
    /\ elevation_cache = EmptyDict
    /\ elevation_calls = 0
    /\ provider_requests = << >>

\* estimate_building_height(tags, height_factor)
EstimateBuildingHeight ==
    /\ op = "idle"
    /\ "tags" \in DOMAIN arg
    /\ op' = "estimate_building_height"
    /\ ret' = estimate_building_height(arg.tags, arg.height_factor)
    /\ UNCHANGED <<arg, lists, terrain_elevation, elevation_cache, elevation_calls,
                   provider_requests>>
    /\ UNCHANGED services

\* The state after process_overpass_results(data, factor) answered by resp.
Processed(data, factor, resp) ==
    \E r \in {process_overpass_results(data, factor, elevation_cache, resp)} :
        /\ op' = "process_overpass_results"
        /\ ret' = r.out
        /\ buildings' = r.L.buildings
        /\ roads' = r.L.roads
        /\ points' = r.L.points
        /\ polygons' = r.L.polygons
        /\ elevation_cache' = r.cache
        /\ elevation_calls' = r.calls
        /\ provider_requests' = r.requests
        /\ UNCHANGED terrain_elevation
        /\ UNCHANGED services

\* process_overpass_results on a response holding one building way with the tags.
ProcessBuildingWay ==
    /\ op = "idle"
    /\ "tags" \in DOMAIN arg
    /\ \E resp \in {r \in Responses : r.short = 0 /\ r.terrain <= 1} :
         Processed([elements |-> <<BuildingWay(arg.tags)>>], arg.height_factor, resp)
    /\ UNCHANGED arg

NextHeight == EstimateBuildingHeight \/ ProcessBuildingWay

SpecHeight == InitHeight /\ [][NextHeight]_vars

(* Claims on the height derivation.                                        *)

\* The number a `height` value states: that of its first blank-separated
\* token; << >> when it states none.
HeightNumber(tags) ==
    LET toks == IF "height" \in DOMAIN tags THEN split(tags["height"]) ELSE << >>
    IN  IF toks # << >> /\ float(toks[1]).kind = "return"
        THEN <<float(toks[1]).val>> ELSE << >>

\* The number a `building:levels` value states; << >> when it states none.
LevelsNumber(tags) ==
    IF "building:levels" \in DOMAIN tags /\ float(tags["building:levels"]).kind = "return"
    THEN <<float(tags["building:levels"]).val>> ELSE << >>

\* The base height of the `building` value, 8 when it is not in the table.
TypeHeight(tags) ==
    IF "building" \in DOMAIN tags /\ tags["building"] \in DOMAIN base_heights
    THEN base_heights[tags["building"]] ELSE 8

\* dict `d` without key `key`.
Without(d, key) == [k \in DOMAIN d \ {key} |-> d[k]]

EstimateDone == op = "estimate_building_height"

\* C4: estimate_building_height returns number(height) x factor when the
\* `height` tag states a number, whatever `building:levels` holds; else
\* number(levels) x 3 x factor when `building:levels` states a number; else
\* the base height of the `building` value (8 when unlisted) x factor.
C4_HeightFallbackChain ==
    EstimateDone =>
        LET tags == arg.tags
            f    == arg.height_factor
            h    == HeightNumber(tags)
            l    == LevelsNumber(tags)
        IN  ret = Return(IF h # << >> THEN Mul(h[1], f)
                         ELSE IF l # << >> THEN Mul(Mul(l[1], Num(3)), f)
                         ELSE Mul(Num(TypeHeight(tags)), f))

\* A malformed `height` ("m") is passed over and `building:levels` = "1"
\* decides: 1 x 3 x 2.
C4_Witness ==
    /\ EstimateDone
    /\ arg.height_factor = Num(2)
    /\ "height" \in DOMAIN arg.tags /\ arg.tags["height"] = <<"m">>
    /\ "building:levels" \in DOMAIN arg.tags /\ arg.tags["building:levels"] = <<"1">>
    /\ ret = Return(Num(6))

\* C5: whatever string `height` and `building:levels` hold,
\* estimate_building_height raises nothing, and a value that states no
\* number gives the result the tags give without that key.
C5_MalformedFallsThrough ==
    EstimateDone =>
        LET tags == arg.tags
            f    == arg.height_factor
        IN  /\ ret.kind = "return"
            /\ ("height" \in DOMAIN tags /\ HeightNumber(tags) = << >>)
                   => ret = estimate_building_height(Without(tags, "height"), f)
            /\ ("building:levels" \in DOMAIN tags /\ LevelsNumber(tags) = << >>)
                   => ret = estimate_building_height(Without(tags, "building:levels"), f)

\* An empty `height` and a unit-only `building:levels`: the type default, 8 x 2.
C5_Witness ==
    /\ EstimateDone
    /\ arg.height_factor = Num(2)
    /\ "height" \in DOMAIN arg.tags /\ arg.tags["height"] = << >>
    /\ "building:levels" \in DOMAIN arg.tags /\ arg.tags["building:levels"] = <<"m">>
    /\ ret = Return(Num(16))

PipelineDone == op = "process_overpass_results"

\* The result is a collection (not None, not an exception).
IsCollection == ret.kind = "return" /\ "buildings" \in DOMAIN ret.val

\* C6: every Building of the result of process_overpass_results has a
\* finite, non-negative height.
C6_HeightFiniteNonNegative ==
    (PipelineDone /\ IsCollection) =>
        \A i \in 1..Len(ret.val.buildings) :
            /\ IsFinite(ret.val.buildings[i].height)
            /\ NonNegative(ret.val.buildings[i].height)

-----------------------------------------------------------------------------
(* SpecClassify: process_node and process_way called on one element, and   *)
(* process_overpass_results on a response holding that element alone.      *)

\* Entries of a way's `geometry`: three locations, and one without `lon`.
Refs == {[lat |-> 0, lon |-> 0], [lat |-> 0, lon |-> 10], [lat |-> 10, lon |-> 0],
         [lat |-> 0]}

\* A `geometry` option: absent, or any list of at most MaxGeom entries.
Geometries == {<<g>> : g \in Strings(Refs, MaxGeom)} \cup {<< >>}

ElementKeys == {"type", "id", "tags", "nodes", "geometry", "lat", "lon", "members"}

\* An element dict from options for its keys (absent when not given).
Element(given) ==
    DictOf(ElementKeys, [k \in ElementKeys |-> Get(given, k, << >>)])

\* `tags` options of the ways that exercise the cascade.
WayTagOptions ==
    {<< >>,
     <<[name |-> <<"x">>]>>,
     <<[building |-> <<"yes">>]>>,
     <<[highway |-> <<"primary">>]>>,
     <<[highway |-> <<"primary">>, name |-> <<"x">>]>>,
     <<[highway |-> << >>]>>,
     <<[building |-> <<"yes">>, highway |-> <<"primary">>]>>}

TagKeys == {"amenity", "shop", "tourism", "historic", "leisure", "landuse",
            "natural", "name"}

TagValue ==
    [k \in TagKeys |->
        CASE k = "amenity" -> <<"cafe">> [] k = "shop" -> <<"bakery">>
          [] k = "tourism" -> <<"museum">> [] k = "historic" -> <<"castle">>
          [] k = "leisure" -> <<"park">> [] k = "landuse" -> <<"forest">>
          [] k = "natural" -> <<"water">> [] k = "name" -> <<"x">>]

\* The tags whose keys `how` marks "value" (the usual value) or "empty" ("").
TagsFrom(how) ==
    DictOf(DOMAIN how,
           [k \in DOMAIN how |->
               IF how[k] = "value" THEN <<TagValue[k]>>
               ELSE IF how[k] = "empty" THEN << << >> >> ELSE << >>])

NodeKeys == {"amenity", "shop", "tourism", "historic", "leisure"}

PolygonKeys == {"landuse", "natural", "leisure"}

\* Lists as a caller may hand them over: empty, or holding earlier features.
Old == [element_id |-> 0, coordinates |-> << >>, name |-> <<"old">>,
        type |-> <<"old">>, tags |-> EmptyDict]

StartLists ==
    {EmptyLists,
     [buildings |-> <<Old>>, roads |-> <<Old>>, points |-> <<Old>>, polygons |-> <<Old>>]}

ClassifyArg(element, L) ==
    /\ arg = [element |-> element, L |-> L, height_factor |-> Num(1)]
    /\ buildings = L.buildings /\ roads = L.roads
    /\ points = L.points /\ polygons = L.polygons
    /\ terrain_elevation = 0

InitClassify ==
    /\ ServicesInit
    /\ op = "idle"
    /\ ret = NoRet
    /\ elevation_cache = EmptyDict
    /\ elevation_calls = 0
    /\ provider_requests = << >>
    /\ \E L \in StartLists :
         \* ways: every geometry, with and without `nodes`
         \/ \E t \in WayTagOptions, g \in Geometries, n \in {<< >>, << <<1, 2>> >>} :
              ClassifyArg(Element([type |-> << <<"way">> >>, id |-> <<1>>, tags |-> t,
                                   geometry |-> g, nodes |-> n]), L)
         \* untagged-by-class ways with polygon tags
         \/ \E how \in [PolygonKeys \cup {"name"} -> {"absent", "empty", "value"}],
               g \in {<<Ring>>, <<SubSeq(Ring, 1, 2)>>} :
              ClassifyArg(Element([type |-> << <<"way">> >>, id |-> <<1>>,
                                   tags |-> <<TagsFrom(how)>>,
                                   geometry |-> g, nodes |-> << <<1, 2>> >>]), L)
         \* nodes
         \/ \E how \in [NodeKeys \cup {"name"} -> {"absent", "empty", "value"}],
               lon \in {<< >>, <<10>>} :
              ClassifyArg(Element([type |-> << <<"node">> >>, id |-> <<1>>,
                                   tags |-> <<TagsFrom(how)>>,
                                   lat |-> <<0>>, lon |-> lon]), L)
         \/ ClassifyArg(Element([type |-> << <<"node">> >>, id |-> <<1>>,
                                 lat |-> <<0>>, lon |-> <<10>>]), L)
         \* a relation
         \/ ClassifyArg(Element([type |-> << <<"relation">> >>, id |-> <<1>>,
                                 tags |-> <<[name |-> <<"x">>]>>,
                                 members |-> << << >> >>]), L)

\* The state after a call of process_node or process_way with outcome r.
Classified(name, r) ==
    /\ op' = name
    /\ ret' = IF r.kind = "raise" THEN r ELSE Return(None)
    /\ buildings' = IF r.kind = "raise" THEN buildings ELSE r.val.buildings
    /\ roads' = IF r.kind = "raise" THEN roads ELSE r.val.roads
    /\ points' = IF r.kind = "raise" THEN points ELSE r.val.points
    /\ polygons' = IF r.kind = "raise" THEN polygons ELSE r.val.polygons
    /\ UNCHANGED <<arg, elevation_cache, elevation_calls, provider_requests>>
    /\ UNCHANGED terrain_elevation
    /\ UNCHANGED services

\* process_node(element, points)
CallProcessNode ==
    /\ op = "idle"
    /\ "element" \in DOMAIN arg
    /\ IsType(arg.element, <<"node">>)
    /\ \E r \in {process_node(arg.element, arg.L)} : Classified("process_node", r)

\* process_way(element, buildings, roads, polygons, building_height_factor)
CallProcessWay ==
    /\ op = "idle"
    /\ "element" \in DOMAIN arg
    /\ IsType(arg.element, <<"way">>)
    /\ \E r \in {process_way(arg.element, arg.L, arg.height_factor)} :
         Classified("process_way", r)

\* process_overpass_results({"elements": [element]}, building_height_factor)
ProcessOneElement ==
    /\ op = "idle"
    /\ "element" \in DOMAIN arg
    /\ arg.L = EmptyLists
    /\ \E resp \in Responses :
         Processed([elements |-> <<arg.element>>], arg.height_factor, resp)
    /\ UNCHANGED arg

NextClassify == CallProcessNode \/ CallProcessWay \/ ProcessOneElement

SpecClassify == InitClassify /\ [][NextClassify]_vars

(* Claims on the classification of one element.                            *)

\* The tags of the element under classification ({} when it has none).
ArgTags == Get(arg.element, "tags", EmptyDict)

\* `list` is `old` plus one feature made from the element.
AppendedOne(list, old) ==
    /\ Len(list) = Len(old) + 1
    /\ SubSeq(list, 1, Len(old)) = old
    /\ list[Len(list)].element_id = arg.element["id"]
    /\ list[Len(list)].coordinates = WayCoords(arg.element)

\* First coordinate equals last.
Closed(coords) == coords # << >> /\ coords[1] = coords[Len(coords)]

WayDone == op = "process_way"

\* C1: for a way with a non-empty coordinate sequence process_way fires
\* exactly one branch: `building` present appends one Building (also when
\* `highway` is present); else `highway` present appends one Road; else a
\* closed sequence appends one Polygon; else no list changes.
C1_WayCascade ==
    (WayDone /\ WayCoords(arg.element) # << >>) =>
        /\ ret = Return(None)
        /\ points = arg.L.points
        /\ IF "building" \in DOMAIN ArgTags
           THEN /\ AppendedOne(buildings, arg.L.buildings)
                /\ roads = arg.L.roads /\ polygons = arg.L.polygons
           ELSE IF "highway" \in DOMAIN ArgTags
           THEN /\ AppendedOne(roads, arg.L.roads)
                /\ buildings = arg.L.buildings /\ polygons = arg.L.polygons
           ELSE IF Closed(WayCoords(arg.element))
           THEN /\ AppendedOne(polygons, arg.L.polygons)
                /\ buildings = arg.L.buildings /\ roads = arg.L.roads
           ELSE /\ buildings = arg.L.buildings /\ roads = arg.L.roads
                /\ polygons = arg.L.polygons

\* A way tagged `building` and `highway` became a Building after the ones
\* already listed, and no Road.
C1_Witness ==
    /\ WayDone
    /\ {"building", "highway"} \subseteq DOMAIN ArgTags
    /\ Len(arg.L.buildings) = 1
    /\ Len(buildings) = 2 /\ buildings[2].element_id = 1
    /\ roads = arg.L.roads

\* The features the last call of process_overpass_results returned.
FeatureCount ==
    Len(ret.val.buildings) + Len(ret.val.roads) + Len(ret.val.polygons)
        + Len(ret.val.points)

\* C2: process_overpass_results skips a way only when its coordinate
\* sequence is empty: a way with a coordinate and a `building` or `highway`
\* tag, or closed, yields a feature whatever other keys it has or lacks.
C2_WaySkippedOnlyWithoutCoords ==
    (/\ PipelineDone
     /\ IsType(arg.element, <<"way">>)
     /\ WayCoords(arg.element) # << >>
     /\ \/ "building" \in DOMAIN ArgTags
        \/ "highway" \in DOMAIN ArgTags
        \/ Closed(WayCoords(arg.element)))
        => (IsCollection /\ FeatureCount = 1)

\* The distinct vertices of a coordinate sequence.
Vertices(coords) == {coords[i] : i \in 1..Len(coords)}

\* C7: every Building the pipeline produces has a closed ring: first
\* coordinate equal to the last, and at least 3 distinct vertices.
C7_BuildingRingClosed ==
    (PipelineDone /\ IsCollection) =>
        \A i \in 1..Len(ret.val.buildings) :
            /\ Closed(ret.val.buildings[i].coordinates)
            /\ Cardinality(Vertices(ret.val.buildings[i].coordinates)) >= 3

\* The value of the first key of `order` that satisfies Has, else `default`.
FirstOf(tags, order, Has(_), default) ==
    LET hits == {i \in 1..Len(order) : Has(order[i])}
    IN  IF hits = {} THEN default ELSE tags[order[SetMin(hits)]]

NodePriority == <<"amenity", "shop", "tourism", "historic", "leisure">>

PolygonPriority == <<"landuse", "natural", "leisure">>

KeyPresent(k) == k \in DOMAIN ArgTags

KeyNonEmpty(k) == k \in DOMAIN ArgTags /\ ArgTags[k] # << >>

NodeDone == op = "process_node" /\ ret.kind = "return"

\* process_node appended a point of type t, or nothing for an untagged node.
NodeTypeIs(t) ==
    IF DOMAIN ArgTags = {} THEN points = arg.L.points
    ELSE /\ Len(points) = Len(arg.L.points) + 1
         /\ SubSeq(points, 1, Len(arg.L.points)) = arg.L.points
         /\ points[Len(points)].type = t

\* C3 as stated: the point type is the value of the first key present among
\* amenity, shop, tourism, historic, leisure, and "point" when none is
\* present; an untagged node gives no point.
C3_FirstKeyPresent ==
    NodeDone => NodeTypeIs(FirstOf(ArgTags, NodePriority, KeyPresent, <<"point">>))

\* C3 amended: the point type is the value of the first of those keys that
\* is present with a non-empty value, and "point" when there is none; an
\* untagged node gives no point.
C3_FirstKeyNonEmpty ==
    NodeDone => NodeTypeIs(FirstOf(ArgTags, NodePriority, KeyNonEmpty, <<"point">>))

\* amenity = "" and shop = "bakery": the point is a "bakery".
C3_Witness ==
    /\ NodeDone
    /\ "amenity" \in DOMAIN ArgTags /\ ArgTags["amenity"] = << >>
    /\ "shop" \in DOMAIN ArgTags /\ ArgTags["shop"] = <<"bakery">>
    /\ "tourism" \in DOMAIN ArgTags /\ ArgTags["tourism"] = <<"museum">>
    /\ Len(points) = Len(arg.L.points) + 1
    /\ points[Len(points)].type = <<"bakery">>

\* process_way appended a Polygon.
PolygonProduced == WayDone /\ Len(polygons) = Len(arg.L.polygons) + 1

\* C10 as stated: the polygon type is the value of the first key present
\* among landuse, natural, leisure, and "other" when none is present.
C10_FirstKeyPresent ==
    PolygonProduced =>
        polygons[Len(polygons)].type =
            FirstOf(ArgTags, PolygonPriority, KeyPresent, <<"other">>)

\* C10 amended: the polygon type is the value of the first of those keys
\* that is present with a non-empty value, and "other" when there is none.
C10_FirstKeyNonEmpty ==
    PolygonProduced =>
        polygons[Len(polygons)].type =
            FirstOf(ArgTags, PolygonPriority, KeyNonEmpty, <<"other">>)

\* landuse = "" and natural = "water": the polygon is "water".
C10_Witness ==
    /\ PolygonProduced
    /\ "landuse" \in DOMAIN ArgTags /\ ArgTags["landuse"] = << >>
    /\ "natural" \in DOMAIN ArgTags /\ ArgTags["natural"] = <<"water">>
    /\ "leisure" \in DOMAIN ArgTags /\ ArgTags["leisure"] = <<"park">>
    /\ polygons[Len(polygons)].type = <<"water">>

-----------------------------------------------------------------------------
(* Spec: process_overpass_results called again and again on raw responses  *)
(* of up to MAX_FEATURES + 1 elements, elevation_cache living on between   *)
(* the calls.                                                              *)

\* Elements by kind; the id is the position in the response.
ElementOf(kind, id) ==
    CASE kind = "building" ->
           [type |-> <<"way">>, id |-> id, nodes |-> <<1, 2, 3, 1>>, geometry |-> Ring,
            tags |-> [building |-> <<"yes">>]]
      [] kind = "road" ->
           [type |-> <<"way">>, id |-> id, nodes |-> <<1, 2>>,
            geometry |-> SubSeq(Ring, 1, 2), tags |-> [highway |-> <<"primary">>]]
      [] kind = "cafe" ->
           [type |-> <<"node">>, id |-> id, lat |-> 0, lon |-> 10,
            tags |-> [amenity |-> <<"cafe">>]]
      [] kind = "vertex" ->
           [type |-> <<"node">>, id |-> id, lat |-> 10, lon |-> 0]
      [] kind = "hut" ->
           [type |-> <<"way">>, id |-> id, nodes |-> <<4, 5>>,
            geometry |-> <<[lat |-> 10, lon |-> 10], [lat |-> 20, lon |-> 10]>>,
            tags |-> [building |-> <<"hut">>]]
      [] kind = "park" ->
           [type |-> <<"way">>, id |-> id, nodes |-> <<1, 2, 3, 1>>, geometry |-> Ring,
            tags |-> [leisure |-> <<"park">>]]
      [] kind = "relation" ->
           [type |-> <<"relation">>, id |-> id, members |-> << >>,
            tags |-> [building |-> <<"yes">>]]

ElementKinds == {"building", "road", "cafe", "vertex", "hut"}

\* Raw responses without `elements`: absent, empty, an error remark.
UnusableResponses == <<None, EmptyDict, [remark |-> <<"timeout">>]>>

\* Raw responses with every list of at most MAX_FEATURES + 1 elements.
ElementResponses ==
    {[elements |-> [i \in 1..Len(kinds) |-> ElementOf(kinds[i], i)]] :
        kinds \in Strings(ElementKinds, MAX_FEATURES + 1)}

Init ==
    /\ ServicesInit
    /\ op = "idle"
    /\ arg = NoRet
    /\ ret = NoRet
    /\ buildings = << >> /\ roads = << >> /\ points = << >> /\ polygons = << >>
    /\ terrain_elevation = 0
    /\ elevation_cache = EmptyDict
    /\ elevation_calls = 0
    /\ provider_requests = << >>

\* The arguments of a call, with the provider's answer and the cache as
\* the call found it.
CallArg(data, resp) ==
    [data |-> data, height_factor |-> Num(1), resp |-> resp, cache |-> elevation_cache]

\* process_overpass_results(data), the provider answering resp if asked.
ProcessOverpassResults ==
    /\ op = "idle"
    /\ \E resp \in Responses :
         \/ \E i \in 1..Len(UnusableResponses) :
              /\ arg' = CallArg(UnusableResponses[i], resp)
              /\ Processed(UnusableResponses[i], Num(1), resp)
         \/ \E data \in ElementResponses :
              /\ arg' = CallArg(data, resp)
              /\ Processed(data, Num(1), resp)

\* The caller keeps the result and waits for the next query; of the
\* modules' state only the caches live on.
Rerun ==
    /\ op # "idle"
    /\ op' = "idle"
    /\ arg' = NoRet
    /\ ret' = NoRet
    /\ buildings' = << >> /\ roads' = << >> /\ points' = << >> /\ polygons' = << >>
    /\ terrain_elevation' = 0
    /\ elevation_calls' = 0
    /\ provider_requests' = << >>
    /\ sleeps' = << >>
    /\ UNCHANGED <<elevation_cache, query_cache, geocode_cache, now>>

Next == ProcessOverpassResults \/ Rerun

Spec == Init /\ [][Next]_vars

(* Claims on the whole response.                                           *)

ResultsDone == op = "process_overpass_results"

\* The raw response is None, {} or a dict without `elements`.
Unusable ==
    \/ "py" \in DOMAIN arg.data
    \/ DOMAIN arg.data = {}
    \/ "elements" \notin DOMAIN arg.data

\* The returned value is a collection of the four lists.
ReturnsCollection ==
    /\ ret.kind = "return"
    /\ {"buildings", "roads", "points", "polygons", "terrain_elevation"}
           \subseteq DOMAIN ret.val

\* The element_ids of a list of features.
Ids(list) == [i \in 1..Len(list) |-> list[i].element_id]

Increasing(ids) == \A i, j \in 1..Len(ids) : i < j => ids[i] < ids[j]

\* The ids of all returned features.
ReturnedIds ==
    UNION {{Ids(ret.val[l])[i] : i \in 1..Len(ret.val[l])} :
              l \in {"buildings", "roads", "points", "polygons"}}

\* The element makes a feature when processed on its own.
MakesFeature(element) ==
    ProcessElement(element, EmptyLists, Num(1)) # Return(EmptyLists)

\* C8: only the first MAX_FEATURES elements are processed, in their
\* original order: an element makes a feature iff it is among them and
\* makes one on its own, every list keeps the input order, and a response
\* longer than the cap still returns a collection.
C8_OnlyFirstMaxFeatures ==
    (ResultsDone /\ ~Unusable) =>
        /\ ReturnsCollection
        /\ \A i \in 1..Len(arg.data["elements"]) :
             (i \in ReturnedIds) <=>
                 (i <= MAX_FEATURES /\ MakesFeature(arg.data["elements"][i]))
        /\ \A l \in {"buildings", "roads", "points", "polygons"} :
             Increasing(Ids(ret.val[l]))

\* A response of MAX_FEATURES + 1 elements that all make a feature: the
\* last one, a building, is left out.
C8_Witness ==
    /\ ResultsDone /\ ~Unusable
    /\ Len(arg.data["elements"]) = MAX_FEATURES + 1
    /\ \A i \in 1..(MAX_FEATURES + 1) : MakesFeature(arg.data["elements"][i])
    /\ "building" \in DOMAIN arg.data["elements"][MAX_FEATURES + 1]["tags"]
    /\ ReturnsCollection
    /\ ReturnedIds = 1..MAX_FEATURES

\* C9: an absent or empty response, or one without `elements`, returns
\* None without raising and without a call of the elevation service; a
\* response with `elements`, even an empty list, returns a collection.
C9_NoResultWithoutElements ==
    ResultsDone =>
        IF Unusable
        THEN ret = Return(None) /\ elevation_calls = 0 /\ provider_requests = << >>
        ELSE ReturnsCollection

\* A response without `elements` returned None after an earlier call had
\* filled the elevation cache.
C9_Witness ==
    /\ ResultsDone
    /\ "remark" \in DOMAIN arg.data
    /\ ret = Return(None)
    /\ elevation_calls = 0
    /\ DOMAIN elevation_cache # {}

\* An empty `elements` list returned a collection without features.
C9_WitnessEmptyElements ==
    /\ ResultsDone /\ ~Unusable
    /\ arg.data["elements"] = << >>
    /\ ReturnsCollection
    /\ ReturnedIds = {}

(* Claims on the display names (SpecClassify).                             *)

RoadProduced == WayDone /\ Len(roads) = Len(arg.L.roads) + 1

\* The name of a feature: the `name` tag unchanged when present, else dflt.
NameIs(feature, dflt) ==
    feature.name = (IF "name" \in DOMAIN ArgTags THEN ArgTags["name"] ELSE dflt)

\* C11 as stated: without a `name` tag a Road is named by its capitalized
\* highway type and a Polygon by its capitalized polygon type, nothing
\* added; a `name` tag is used unchanged.
C11_NameIsCapitalizedType ==
    /\ RoadProduced =>
         NameIs(roads[Len(roads)], capitalize(roads[Len(roads)].type))
    /\ PolygonProduced =>
         NameIs(polygons[Len(polygons)], capitalize(polygons[Len(polygons)].type))

\* C11 amended: without a `name` tag a Road is named by its capitalized
\* highway type and a Polygon by its capitalized polygon type followed by
\* " Area"; a `name` tag is used unchanged.
C11_PolygonNameHasArea ==
    /\ RoadProduced =>
         NameIs(roads[Len(roads)], capitalize(roads[Len(roads)].type))
    /\ PolygonProduced =>
         NameIs(polygons[Len(polygons)],
                capitalize(polygons[Len(polygons)].type) \o <<" Area">>)

\* A nameless primary road was named "Primary".
C11_Witness ==
    /\ RoadProduced
    /\ "name" \notin DOMAIN ArgTags
    /\ roads[Len(roads)].type = <<"primary">>
    /\ roads[Len(roads)].name = <<"Primary">>

\* A nameless forest was named "Forest Area".
C11_WitnessPolygon ==
    /\ PolygonProduced
    /\ "name" \notin DOMAIN ArgTags
    /\ polygons[Len(polygons)].name = <<"Forest", " Area">>

(* Claims on the terrain elevation (Spec).                                 *)

\* The first min(TerrainSlice, n) coordinates of the returned buildings'
\* rings, in building order.
FirstRingCoords ==
    LET rings == [i \in 1..Len(ret.val.buildings) |-> ret.val.buildings[i].coordinates]
    IN  Slice(Flatten(rings), TerrainSlice)

\* x is the arithmetic mean of the numbers of e, to the model's precision.
IsMeanOf(x, e) ==
    /\ x.k = "fin"
    /\ x.n * Len(e) <= Sum(e) * NumScale
    /\ Sum(e) * NumScale < (x.n + 1) * Len(e)

\* C12: with at least one building the elevation service is called once,
\* for the first min(100, n) coordinates of the flattened building rings,
\* and terrain_elevation is the mean of what it returns; without a building
\* no elevation request is made and terrain_elevation is 0.
C12_TerrainIsMeanOfFirstCoords ==
    (ResultsDone /\ ~Unusable) =>
        IF ret.val.buildings # << >>
        THEN \E elev \in {get_elevation_data(FirstRingCoords, arg.cache, arg.resp)} :
               /\ elevation_calls = 1
               /\ provider_requests = elev.requests
               /\ IsMeanOf(ret.val.terrain_elevation, elev.out.val)
        ELSE /\ elevation_calls = 0
             /\ provider_requests = << >>
             /\ ret.val.terrain_elevation = Num(0)

\* A hut of two coordinates before a building of four: the elevations of
\* the hut's two and the building's first coordinate were asked for, and
\* their mean is not 0.
C12_Witness ==
    /\ ResultsDone /\ ~Unusable
    /\ Len(ret.val.buildings) = 2
    /\ Len(ret.val.buildings[1].coordinates) = 2
    /\ Len(ret.val.buildings[2].coordinates) = 4
    /\ provider_requests = <<FirstRingCoords>>
    /\ ret.val.terrain_elevation # Num(0)

-----------------------------------------------------------------------------
(* SpecElevation: get_elevation_data called again and again on lists of up *)
(* to MAX_ELEVATION_POINTS + 2 coordinates, elevation_cache living on      *)
(* between the calls.                                                      *)

\* [lon, lat] in units of 1e-6 degree; the first two share a cache key.
Coords == {<<0, 0>>, <<4, 0>>, <<10, 0>>}

CoordLists == Strings(Coords, MAX_ELEVATION_POINTS + 2)

\* The provider's answers: those of Responses, bodies whose `results` hold
\* an entry that is not a dict after `good` well-formed ones, and a body
\* whose entries have no `elevation`.
ElevationResponses ==
    Responses
    \cup {[kind |-> "garbled", good |-> g, terrain |-> 1] : g \in 0..1}
    \cup {[kind |-> "bare", short |-> 0, terrain |-> 1]}

\* get_elevation_data(coords_list), the provider answering resp if asked.
GetElevationData ==
    /\ op = "idle"
    /\ \E coords_list \in CoordLists, resp \in ElevationResponses :
         \E r \in {get_elevation_data(coords_list, elevation_cache, resp)} :
            /\ op' = "get_elevation_data"
            /\ arg' = [coords_list |-> coords_list, resp |-> resp,
                       cache |-> elevation_cache]
            /\ ret' = r.out
            /\ elevation_cache' = r.cache
            /\ elevation_calls' = 1
            /\ provider_requests' = r.requests
    /\ UNCHANGED <<lists, terrain_elevation>>
    /\ UNCHANGED services

NextElevation == GetElevationData \/ Rerun

SpecElevation == Init /\ [][NextElevation]_vars

(* Claims on get_elevation_data.                                           *)

ElevationDone == op = "get_elevation_data"

\* Coordinate c was in the cache when the call began.
WasCached(c) == cache_key(c) \in DOMAIN arg.cache

\* C13: get_elevation_data returns a list as long as its input, without a
\* null entry, position i holding the elevation of input coordinate i (the
\* cached one when there is one), also for inputs longer than
\* MAX_ELEVATION_POINTS.
C13_SameLengthAsInput ==
    ElevationDone =>
        /\ ret.kind = "return"
        /\ Len(ret.val) = Len(arg.coords_list)
        /\ \A i \in 1..Len(ret.val) :
             /\ ret.val[i] \in Nat
             /\ WasCached(arg.coords_list[i]) =>
                    ret.val[i] = arg.cache[cache_key(arg.coords_list[i])]

\* The call got more than MAX_ELEVATION_POINTS coordinates.
LongInput == ElevationDone /\ Len(arg.coords_list) > MAX_ELEVATION_POINTS

\* idx (indices from 0, one per kept coordinate) is evenly spaced over a
\* list of n: non-decreasing with steps that differ by at most 1, from
\* index 0 to the last index, and not the first indices.
EvenlySpaced(idx, n) ==
    /\ \A i \in 1..(Len(idx) - 1) : idx[i] <= idx[i + 1]
    /\ \A i, j \in 1..(Len(idx) - 1) :
         (idx[i + 1] - idx[i]) - (idx[j + 1] - idx[j]) \in {-1, 0, 1}
    /\ idx[1] = 0
    /\ idx[Len(idx)] = n - 1
    /\ idx # [i \in 1..Len(idx) |-> i - 1]

\* C14: of more than MAX_ELEVATION_POINTS coordinates exactly
\* MAX_ELEVATION_POINTS are kept, at evenly spaced indices over the whole
\* list: one elevation per kept coordinate is returned, and with an empty
\* cache the request lists the coordinates at those indices.
C14_EvenIndexSelection ==
    LongInput =>
        /\ Len(ret.val) = MAX_ELEVATION_POINTS
        /\ \E idx \in [1..MAX_ELEVATION_POINTS -> 0..(Len(arg.coords_list) - 1)] :
             /\ EvenlySpaced(idx, Len(arg.coords_list))
             /\ arg.cache = EmptyDict =>
                    provider_requests =
                        <<[i \in 1..MAX_ELEVATION_POINTS |-> arg.coords_list[idx[i] + 1]]>>

\* Of five coordinates with an empty cache, those at indices 0, 2 and 4
\* were asked for, and they are not the first three.
C14_Witness ==
    /\ LongInput
    /\ Len(arg.coords_list) = MAX_ELEVATION_POINTS + 2
    /\ arg.cache = EmptyDict
    /\ provider_requests =
           <<[i \in 1..MAX_ELEVATION_POINTS |-> arg.coords_list[2 * i - 1]]>>
    /\ provider_requests # <<SubSeq(arg.coords_list, 1, MAX_ELEVATION_POINTS)>>

\* The coordinates the slots of the result stand for.
Kept == Downsample(arg.coords_list)

\* The request of the call failed: no answer or an error status
\* ("error"), or a body the loop over its results breaks on ("garbled").
RequestFailed ==
    /\ ElevationDone
    /\ provider_requests # << >>
    /\ arg.resp.kind \in {"error", "garbled"}

\* The number of cache misses among the first i kept coordinates.
MissRank(i) == Cardinality({j \in 1..i : ~WasCached(Kept[j])})

\* C15 as stated: when the request fails the call does not raise, every
\* cache-miss slot of the result is 0 and every cache-hit slot keeps its
\* cached value.
C15_FailureZeroesEveryMiss ==
    RequestFailed =>
        /\ ret.kind = "return"
        /\ \A i \in 1..Len(ret.val) :
             ret.val[i] = (IF WasCached(Kept[i]) THEN arg.cache[cache_key(Kept[i])]
                           ELSE 0)

\* C15 amended: when the request fails the call does not raise, every
\* cache-hit slot keeps its cached value, and every cache-miss slot is 0
\* unless its elevation was read from the body before the failure (none is
\* after a timeout, an HTTP or network error or an unreadable body).
C15_FailureZeroesUnreadMisses ==
    RequestFailed =>
        /\ ret.kind = "return"
        /\ \A i \in 1..Len(ret.val) :
             ret.val[i] =
                 (IF WasCached(Kept[i]) THEN arg.cache[cache_key(Kept[i])]
                  ELSE IF arg.resp.kind = "garbled" /\ MissRank(i) <= arg.resp.good
                  THEN Terrain(arg.resp.terrain, Kept[i])
                  ELSE 0)

\* A failed request behind a cache hit and two misses: the hit kept its
\* non-zero value and both misses are 0.
C15_Witness ==
    /\ RequestFailed
    /\ arg.resp.kind = "error"
    /\ \E i, j, k \in 1..Len(ret.val) :
         /\ WasCached(Kept[i]) /\ ret.val[i] # 0
         /\ j # k /\ ~WasCached(Kept[j]) /\ ~WasCached(Kept[k])
         /\ ret.val[j] = 0 /\ ret.val[k] = 0

\* The coordinate (units of 1e-6 degree) to 5 decimals (units of 1e-5).
To5Decimals(coord) == <<(coord[1] + 5) \div 10, (coord[2] + 5) \div 10>>

\* The 5-decimal key of the coordinate was not in the cache when the call began.
KeyMissing(coord) == To5Decimals(coord) \notin DOMAIN arg.cache

\* C16: a call sends at most one request; it lists exactly the coordinates
\* (of those the sampling kept) whose 5-decimal key is not in the cache, in
\* input order, and no request is sent when every one is a cache hit.
C16_OneRequestOfMisses ==
    ElevationDone =>
        /\ Len(provider_requests) <= 1
        /\ provider_requests =
               (IF \A i \in 1..Len(Kept) : ~KeyMissing(Kept[i]) THEN << >>
                ELSE <<SelectSeq(Kept, KeyMissing)>>)

\* A coordinate that rounds to a cached key, between two that do not: the
\* request lists the two, in input order.
C16_Witness ==
    /\ ElevationDone
    /\ Len(arg.coords_list) = 3
    /\ arg.coords_list[2] = <<4, 0>>
    /\ <<4, 0>> \notin DOMAIN arg.cache
    /\ ~KeyMissing(arg.coords_list[2])
    /\ provider_requests = <<<<arg.coords_list[1], arg.coords_list[3]>>>>

\* Every coordinate was a cache hit and no request was sent.
C16_WitnessAllHits ==
    /\ ElevationDone
    /\ arg.coords_list # << >>
    /\ \A i \in 1..Len(arg.coords_list) : ~KeyMissing(arg.coords_list[i])
    /\ provider_requests = << >>

-----------------------------------------------------------------------------
(* query_overpass (src/services/overpass_service.py) and geocode_location  *)
(* (src/services/geocoding_service.py).  The provider's answer to one      *)
(* request is [kind, status, retry_after, body]: kind "timeout"            *)
(* (requests.exceptions.Timeout), "network" (any other request             *)
(* exception), or "http" with a status, an optional Retry-After header     *)
(* and a body.  query_cache is the dict as the list of its entries in      *)
(* insertion order.                                                        *)

\* MAX_RETRIES of the environment (default 3).
MAX_RETRIES == 3

\* CACHE_TTL of the environment (default 3600 seconds), set to 2 here.
CACHE_TTL == 2

\* The literal 100 of `len(query_cache) > 100`, set to 3 here.
QueryCacheLimit == 3

\* The literal 10 of `sorted_keys[:10]`, set to 2 here.
QueryCacheEvict == 2

\* int(s) of a str: whitespace stripped, then [+|-] digits; anything else
\* is a ValueError.
int(s) ==
    LET t      == strip(s)
        signed == t # << >> /\ t[1] \in {"-", "+"}
        body   == IF signed THEN Tail(t) ELSE t
        value  == Sum([i \in 1..Len(body) |->
                          DigitValue[body[i]] * 10 ^ (Len(body) - i)])
    IN  IF body = << >> \/ \E i \in 1..Len(body) : body[i] \notin Digits
        THEN Raise("ValueError")
        ELSE Return(IF signed /\ t[1] = "-" THEN 0 - value ELSE value)

\* The state of the retry loop: retries, the requests sent, the sleeps
\* made, and out: Pass while the loop goes on, else the call's outcome.
LoopStart == [retries |-> 0, requests |-> << >>, sleeps |-> << >>, out |-> Pass]

\* time.sleep(secs): a negative length is a ValueError.
Sleep(st, secs) ==
    IF secs < 0 THEN [st EXCEPT !.out = Raise("ValueError")]
    ELSE [st EXCEPT !.sleeps = Append(@, secs)]

\* except requests.exceptions.Timeout
OnTimeout(st) ==
    LET retries == st.retries + 1
        st1     == [st EXCEPT !.retries = retries]
    IN  IF retries < MAX_RETRIES THEN Sleep(st1, 2 ^ retries) ELSE st1

\* except requests.exceptions.HTTPError; an exception raised in the
\* handler leaves the function.
OnHTTPError(st, answer) ==
    IF answer.status = 429
    THEN LET retries == st.retries + 1
             st1     == [st EXCEPT !.retries = retries]
             retry_after ==
                 IF answer.retry_after = << >> THEN Return(2 ^ retries)
                 ELSE int(answer.retry_after[1])
         IN  IF retries < MAX_RETRIES
             THEN (IF retry_after.kind = "raise" THEN [st1 EXCEPT !.out = retry_after]
                   ELSE Sleep(st1, retry_after.val))
             ELSE st1
    ELSE [st EXCEPT !.out = Return(None)]

\* The except clauses of both retry loops.
OnException(st, answer) ==
    IF answer.kind = "timeout" THEN OnTimeout(st)
    ELSE IF answer.kind = "http" THEN OnHTTPError(st, answer)
    ELSE [st EXCEPT !.out = Return(None)]

\* response.raise_for_status() raises for the 4xx and 5xx statuses.
RaisesForStatus(answer) == answer.kind = "http" /\ answer.status >= 400

\* response.json(): the document of the body; a body that is not JSON is
\* a ValueError.
Json(body) == IF body = "not json" THEN Raise("ValueError") ELSE Return([doc |-> body])

\* The positions of query_cache that hold the key.
CacheIndex(cache, query) == {i \in 1..Len(cache) : cache[i].query = query}

\* query_cache[query] = {"data": data, "timestamp": t}: in place for a key
\* the dict holds, at the end for a new one.
CacheStore(cache, query, data, t) ==
    LET entry == [query |-> query, data |-> data, timestamp |-> t]
    IN  IF CacheIndex(cache, query) # {}
        THEN [i \in 1..Len(cache) |-> IF cache[i].query = query THEN entry ELSE cache[i]]
        ELSE Append(cache, entry)

\* Position j comes before position i in sorted(keys, key=timestamp), a
\* stable sort of the keys in insertion order.
SortsBefore(cache, j, i) ==
    \/ cache[j].timestamp < cache[i].timestamp
    \/ cache[j].timestamp = cache[i].timestamp /\ j < i

\* A variant that deletes the entries with the newest timestamps.
EvictNewest(cache) ==
    LET rank(i) == Cardinality({j \in 1..Len(cache) : SortsBefore(cache, i, j)})
        kept(e) == rank(CHOOSE i \in 1..Len(cache) : cache[i] = e) >= QueryCacheEvict
    IN  IF Len(cache) > QueryCacheLimit THEN SelectSeq(cache, kept) ELSE cache

\* if len(query_cache) > 100: delete sorted_keys[:10]
Evict(cache) ==
    LET rank(i) == Cardinality({j \in 1..Len(cache) : SortsBefore(cache, j, i)})
        kept(e) == rank(CHOOSE i \in 1..Len(cache) : cache[i] = e) >= QueryCacheEvict
    IN  IF Len(cache) > QueryCacheLimit THEN SelectSeq(cache, kept) ELSE cache

\* What a call leaves: its outcome, the cache, the requests and the sleeps.
Left(out, cache, st) ==
    [out |-> out, cache |-> cache, requests |-> st.requests, sleeps |-> st.sleeps]

\* `while retries < MAX_RETRIES` of query_overpass, entered at time t;
\* answers[i] is the provider's answer to the i-th request.
RECURSIVE OverpassLoop(_, _, _, _, _)
OverpassLoop(query, cache, t, answers, st) ==
    IF st.out.kind # "pass" THEN Left(st.out, cache, st)
    ELSE IF ~(st.retries < MAX_RETRIES) THEN Left(Return(None), cache, st)
    ELSE LET answer == answers[Len(st.requests) + 1]
             st1    == [st EXCEPT !.requests = Append(@, query)]
             data   == Json(answer.body)
         IN  IF answer.kind = "http" /\ ~RaisesForStatus(answer)
             THEN IF data.kind = "raise" THEN Left(Return(None), cache, st1)
                  ELSE Left(Return(data.val),
                            Evict(CacheStore(cache, query, data.val, t + Sum(st1.sleeps))),
                            st1)
             ELSE OverpassLoop(query, cache, t, answers, OnException(st1, answer))

\* A variant that still serves an entry that is exactly CACHE_TTL old.
FreshInclusive(cache_entry, t) == t - cache_entry.timestamp <= CACHE_TTL

\* time.time() - cache_entry["timestamp"] < CACHE_TTL
Fresh(cache_entry, t) == t - cache_entry.timestamp < CACHE_TTL

\* query_overpass(query) called at time t.
query_overpass(query, cache, t, answers) ==
    LET at == CacheIndex(cache, query)
        cache_entry == cache[CHOOSE i \in at : TRUE]
    IN  IF at # {} /\ Fresh(cache_entry, t)
        THEN Left(Return(cache_entry.data), cache, LoopStart)
        ELSE OverpassLoop(query, cache, t, answers, LoopStart)

\* The `result` dict of a place list, or the exception its making raises.
GeocodeResult(data) ==
    IF data.doc = "no lat" THEN Raise("KeyError")
    ELSE Return([lat |-> Num(1), lon |-> Num(2), display_name |-> data.doc])

\* `while retries < MAX_RETRIES` of geocode_location.
RECURSIVE GeocodeLoop(_, _, _, _)
GeocodeLoop(query, cache, answers, st) ==
    IF st.out.kind # "pass" THEN Left(st.out, cache, st)
    ELSE IF ~(st.retries < MAX_RETRIES) THEN Left(Return(None), cache, st)
    ELSE LET answer == answers[Len(st.requests) + 1]
             st1    == [st EXCEPT !.requests = Append(@, query)]
             data   == Json(answer.body)
             result == GeocodeResult(data.val)
         IN  IF answer.kind = "http" /\ ~RaisesForStatus(answer)
             THEN IF data.kind = "raise" THEN Left(Return(None), cache, st1)
                  ELSE IF data.val.doc = "[]" THEN Left(Return(None), cache, st1)
                  ELSE IF result.kind = "raise" THEN Left(Return(None), cache, st1)
                  ELSE Left(result, Put(cache, query, result.val), st1)
             ELSE GeocodeLoop(query, cache, answers, OnException(st1, answer))

\* geocode_location(query)
geocode_location(query, cache, answers) ==
    IF query \in DOMAIN cache THEN Left(Return(cache[query]), cache, LoopStart)
    ELSE GeocodeLoop(query, cache, answers, LoopStart)

-----------------------------------------------------------------------------
(* SpecRetry: query_overpass and geocode_location called again and again   *)
(* with one query, every sequence of provider answers, time passing        *)
(* between the calls.                                                      *)

Answer(kind, status, retry_after, body) ==
    [kind |-> kind, status |-> status, retry_after |-> retry_after, body |-> body]

\* Retry-After headers: absent, seconds, negative seconds, an HTTP-date.
RetryAfters == {<< >>, << <<"1">> >>, << <<"-", "1">> >>, << <<"Wed, 21 Oct">> >>}

\* The answers to one request.
Answers ==
    {Answer("timeout", 0, << >>, ""), Answer("network", 0, << >>, "")}
    \cup {Answer("http", 200, << >>, b) : b \in {"v1", "not json", "[]", "no lat"}}
    \cup {Answer("http", 429, h, "") : h \in RetryAfters}
    \cup {Answer("http", st, << >>, "") : st \in {404, 500}}

AnswerSeqs == [1..MAX_RETRIES -> Answers]

\* The state after query_overpass(query) with outcome r.
Queried(query, answers, r) ==
    /\ op' = "query_overpass"
    /\ arg' = [query |-> query, answers |-> SubSeq(answers, 1, Len(r.requests)),
               cache |-> query_cache, now |-> now]
    /\ ret' = r.out
    /\ query_cache' = r.cache
    /\ provider_requests' = r.requests
    /\ sleeps' = r.sleeps
    /\ now' = now + Sum(r.sleeps)
    /\ UNCHANGED <<lists, terrain_elevation, elevation_cache, elevation_calls,
                   geocode_cache>>

\* query_overpass("q")
QueryOverpass ==
    /\ op = "idle"
    /\ now <= MaxTime
    /\ \E answers \in AnswerSeqs :
         \E r \in {query_overpass("q", query_cache, now, answers)} :
            Queried("q", answers, r)

\* geocode_location("q")
GeocodeLocation ==
    /\ op = "idle"
    /\ now <= MaxTime
    /\ \E answers \in AnswerSeqs :
         \E r \in {geocode_location("q", geocode_cache, answers)} :
            /\ op' = "geocode_location"
            /\ arg' = [query |-> "q", answers |-> SubSeq(answers, 1, Len(r.requests)),
                       cache |-> geocode_cache, now |-> now]
            /\ ret' = r.out
            /\ geocode_cache' = r.cache
            /\ provider_requests' = r.requests
            /\ sleeps' = r.sleeps
            /\ now' = now + Sum(r.sleeps)
    /\ UNCHANGED <<lists, terrain_elevation, elevation_cache, elevation_calls,
                   query_cache>>

\* A second passes between two calls.
Tick ==
    /\ op = "idle"
    /\ now < MaxTime
    /\ now' = now + 1
    /\ UNCHANGED <<op, arg, ret, lists, terrain_elevation, elevation_cache, elevation_calls,
                   provider_requests, query_cache, geocode_cache, sleeps>>

NextRetry == QueryOverpass \/ GeocodeLocation \/ Tick \/ Rerun

SpecRetry == Init /\ [][NextRetry]_vars

(* Claims on the retries.                                                  *)

\* A call of one of the two services has returned or raised.
ServiceDone == op \in {"query_overpass", "geocode_location"}

\* The i-th request of the call was answered by a failure.
Failed(i) ==
    \/ arg.answers[i].kind # "http"
    \/ arg.answers[i].status >= 400
    \/ arg.answers[i].body \in {"not json", "[]", "no lat"} /\ op = "geocode_location"
    \/ arg.answers[i].body = "not json"

\* C17: whatever the provider answers, a call makes at most MAX_RETRIES
\* requests and ends without raising; when its last attempt failed it
\* returns None.
C17_AtMostMaxRetriesNoRaise ==
    ServiceDone =>
        /\ Len(provider_requests) <= MAX_RETRIES
        /\ ret.kind = "return"
        /\ (provider_requests # << >> /\ Failed(Len(provider_requests)))
               => ret = Return(None)

\* The i-th request met a transient failure: a timeout, a 5xx or a 429.
Transient(i) ==
    \/ arg.answers[i].kind = "timeout"
    \/ arg.answers[i].kind = "http" /\ arg.answers[i].status >= 500
    \/ arg.answers[i].kind = "http" /\ arg.answers[i].status = 429

\* C18: a transient failure of an attempt before the MAX_RETRIES-th is
\* followed by another attempt.
C18_TransientFailureRetried ==
    ServiceDone =>
        \A i \in 1..Len(provider_requests) :
            (Transient(i) /\ i < MAX_RETRIES) => Len(provider_requests) > i

\* The Retry-After header of the answer to the i-th request, if any.
Hint(i) ==
    IF arg.answers[i].kind = "http" /\ arg.answers[i].status = 429
    THEN arg.answers[i].retry_after ELSE << >>

\* C19: after the k-th attempt failed by a timeout or a 429, with attempts
\* left, the call waits 2^k seconds, or the seconds of the 429's
\* Retry-After hint when it carries one; after the last allowed attempt
\* it does not wait.
C19_BackoffDoublesOrHint ==
    ServiceDone =>
        /\ Len(sleeps) < MAX_RETRIES
        /\ \A k \in 1..Len(provider_requests) :
             (k < MAX_RETRIES /\ (arg.answers[k].kind = "timeout" \/ Hint(k) # << >>
                                  \/ (arg.answers[k].kind = "http"
                                      /\ arg.answers[k].status = 429)))
                 => /\ Len(sleeps) >= k
                    /\ Hint(k) = << >> => sleeps[k] = 2 ^ k
                    /\ Hint(k) = << <<"1">> >> => sleeps[k] = 1

-----------------------------------------------------------------------------
(* SpecQueryCache: query_overpass called again and again with              *)
(* QueryCacheLimit + 2 queries, each call answered at once by a document   *)
(* or an error, time passing between the calls.                            *)

Queries == 1..(QueryCacheLimit + 2)

\* Answer sequences that end the call at the first request.
FirstAnswers ==
    {[i \in 1..MAX_RETRIES |-> a] :
        a \in {Answer("http", 200, << >>, "v1"), Answer("http", 500, << >>, "")}}

\* query_overpass(query) for any of the queries.
QueryOverpassAny ==
    /\ op = "idle"
    /\ now <= MaxTime
    /\ \E query \in Queries, answers \in FirstAnswers :
         \E r \in {query_overpass(query, query_cache, now, answers)} :
            Queried(query, answers, r)

NextQueryCache == QueryOverpassAny \/ Tick \/ Rerun

SpecQueryCache == Init /\ [][NextQueryCache]_vars

(* Claims on the query-result cache.                                       *)

QueryDone == op = "query_overpass"

\* The call fetched a document from the provider and stored it.
Fetched == QueryDone /\ provider_requests # << >> /\ ret # Return(None)

\* The cache as the store of the fetched document left it, before any
\* eviction: the old entries, the one of the query replaced or added.
Stored ==
    IF \E i \in 1..Len(arg.cache) : arg.cache[i].query = arg.query
    THEN [i \in 1..Len(arg.cache) |->
             IF arg.cache[i].query = arg.query
             THEN [query |-> arg.query, data |-> ret.val, timestamp |-> now]
             ELSE arg.cache[i]]
    ELSE arg.cache \o <<[query |-> arg.query, data |-> ret.val, timestamp |-> now]>>

Entries(cache) == {cache[i] : i \in 1..Len(cache)}

\* C20: a fetch that brings the cache above QueryCacheLimit entries removes
\* exactly the QueryCacheEvict entries with the oldest timestamps and keeps
\* the entry just stored; any other fetch removes nothing; so the cache
\* never holds more than QueryCacheLimit entries when a call has returned.
C20_EvictsOldestKeepsNewest ==
    /\ Len(query_cache) <= QueryCacheLimit
    /\ Fetched =>
         IF Len(Stored) > QueryCacheLimit
         THEN /\ Entries(query_cache) \subseteq Entries(Stored)
              /\ Cardinality(Entries(Stored) \ Entries(query_cache)) = QueryCacheEvict
              /\ \A gone \in Entries(Stored) \ Entries(query_cache),
                    kept \in Entries(query_cache) :
                      gone.timestamp <= kept.timestamp
              /\ \E e \in Entries(query_cache) :
                    e.query = arg.query /\ e.timestamp = now
         ELSE query_cache = Stored

\* A fetch into a full cache whose entries have three different ages: the
\* two oldest are gone, the youngest and the new one are left.
C20_Witness ==
    /\ Fetched
    /\ Len(arg.cache) = QueryCacheLimit
    /\ Len(Stored) = QueryCacheLimit + 1
    /\ arg.cache[1].timestamp > arg.cache[2].timestamp
    /\ arg.cache[3].timestamp > arg.cache[1].timestamp
    /\ Len(query_cache) = QueryCacheLimit + 1 - QueryCacheEvict
    /\ query_cache[1] = arg.cache[3]
    /\ query_cache[2].query = arg.query

-----------------------------------------------------------------------------
(* GeoDataCollection (src/models/geo_data.py).  A Coordinate is            *)
(* [lon, lat], both in units of 0.01 degree; a feature is a record of its  *)
(* id, its tags and its coordinates (a Point has one `coordinate`); a      *)
(* collection is the record of its five fields.                            *)

\* The fields of each dataclass in the order of its definition, those of
\* the base class first, with whether the field has a default.
Field(name, default) == [name |-> name, default |-> default]

GeoFeatureFields ==
    <<Field("id", FALSE), Field("name", FALSE), Field("feature_type", FALSE),
      Field("tags", TRUE)>>

PointFields == GeoFeatureFields \o <<Field("coordinate", FALSE)>>

RoadFields == GeoFeatureFields \o <<Field("coordinates", FALSE), Field("width", TRUE)>>

BuildingFields ==
    GeoFeatureFields
    \o <<Field("coordinates", FALSE), Field("height", TRUE), Field("color", TRUE)>>

PolygonFields == GeoFeatureFields \o <<Field("coordinates", FALSE)>>

GeoDataCollectionFields ==
    <<Field("buildings", TRUE), Field("roads", TRUE), Field("points", TRUE),
      Field("polygons", TRUE), Field("terrain_elevation", TRUE)>>

\* The dataclasses of the module in the order they are defined.
ClassDefinitions ==
    <<<<Field("lon", FALSE), Field("lat", FALSE)>>,
      <<Field("min_lon", FALSE), Field("min_lat", FALSE), Field("max_lon", FALSE),
        Field("max_lat", FALSE)>>,
      <<Field("key", FALSE), Field("value", FALSE)>>,
      GeoFeatureFields, PointFields, RoadFields, BuildingFields, PolygonFields,
      GeoDataCollectionFields>>

\* @dataclass writes __init__ from the fields: a field without a default
\* after one with a default is a TypeError.
dataclass(fields) ==
    IF \E i, j \in 1..Len(fields) : i < j /\ fields[i].default /\ ~fields[j].default
    THEN Raise("TypeError")
    ELSE Return(None)

\* `import models.geo_data`: the class definitions run in order, and the
\* first that raises ends the import.
ImportGeoData ==
    IF \E i \in 1..Len(ClassDefinitions) : dataclass(ClassDefinitions[i]).kind = "raise"
    THEN Raise("TypeError")
    ELSE Return(None)

Coordinate(lon, lat) == [lon |-> lon, lat |-> lat]

BoundingBox(min_lon, min_lat, max_lon, max_lat) ==
    [min_lon |-> min_lon, min_lat |-> min_lat, max_lon |-> max_lon, max_lat |-> max_lat]

GeoDataCollection(b, r, p, g, t) ==
    [buildings |-> b, roads |-> r, points |-> p, polygons |-> g,
     terrain_elevation |-> t]

\* BoundingBox.contains
contains(bounds, coord) ==
    /\ bounds.min_lon <= coord.lon /\ coord.lon <= bounds.max_lon
    /\ bounds.min_lat <= coord.lat /\ coord.lat <= bounds.max_lat

\* The list all_coords of get_bounds.
AllCoords(self) ==
    Flatten([i \in 1..Len(self.buildings) |-> self.buildings[i].coordinates])
    \o Flatten([i \in 1..Len(self.roads) |-> self.roads[i].coordinates])
    \o [i \in 1..Len(self.points) |-> self.points[i].coordinate]
    \o Flatten([i \in 1..Len(self.polygons) |-> self.polygons[i].coordinates])

\* The box around (0, 0) returned without coordinates: 0.01 degree each way.
DefaultBounds == BoundingBox(-1, -1, 1, 1)

get_bounds(self) ==
    LET all_coords == AllCoords(self)
        lons == {all_coords[i].lon : i \in 1..Len(all_coords)}
        lats == {all_coords[i].lat : i \in 1..Len(all_coords)}
    IN  IF all_coords = << >> THEN DefaultBounds
        ELSE BoundingBox(SetMin(lons), SetMin(lats), SetMax(lons), SetMax(lats))

\* The helper of filter_by_tags.
matches_tags(tags, feature_tags) ==
    \A key \in DOMAIN tags :
        key \in DOMAIN feature_tags /\ feature_tags[key] = tags[key]

\* result = GeoDataCollection(terrain_elevation=self.terrain_elevation)
\* with the four lists assigned.
Result(self, b, r, p, g) == GeoDataCollection(b, r, p, g, self.terrain_elevation)

\* [result: the returned collection, self: the receiver afterwards]
filter_by_tags(self, tags) ==
    LET m(f) == matches_tags(tags, f.tags)
    IN  [result |-> Result(self, SelectSeq(self.buildings, m), SelectSeq(self.roads, m),
                           SelectSeq(self.points, m), SelectSeq(self.polygons, m)),
         self |-> self]

\* The helper any_in_bounds of filter_by_bounds.
any_in_bounds(bounds, coords) ==
    \E i \in 1..Len(coords) : contains(bounds, coords[i])

\* [result, self] as for filter_by_tags
filter_by_bounds(self, bounds) ==
    LET any(f) == any_in_bounds(bounds, f.coordinates)
        in(f)  == contains(bounds, f.coordinate)
    IN  [result |-> Result(self, SelectSeq(self.buildings, any), SelectSeq(self.roads, any),
                           SelectSeq(self.points, in), SelectSeq(self.polygons, any)),
         self |-> self]

-----------------------------------------------------------------------------
(* SpecCollection: a caller imports models.geo_data, builds a              *)
(* GeoDataCollection of a few features and filters it by tags or by bounds *)
(* or asks for its bounds.  The five list and field variables hold the     *)
(* collection once it is built.                                            *)

\* A closed ring of three distinct vertices.
RingCoords == <<Coordinate(0, 0), Coordinate(2, 0), Coordinate(0, 2), Coordinate(0, 0)>>

Feature(id, tags, coordinates) == [id |-> id, tags |-> tags, coordinates |-> coordinates]

PointFeature(id, tags, coordinate) == [id |-> id, tags |-> tags, coordinate |-> coordinate]

BuildingPool == {Feature(1, [building |-> <<"yes">>], RingCoords)}

\* A named primary road, and a road whose coordinate list is empty.
RoadPool ==
    {Feature(2, [highway |-> <<"primary">>, name |-> <<"x">>],
             <<Coordinate(3, 3), Coordinate(5, 3)>>),
     Feature(3, [highway |-> <<"primary">>], << >>)}

PointPool ==
    {PointFeature(4, [amenity |-> <<"cafe">>], Coordinate(-2, -2)),
     PointFeature(5, [amenity |-> <<"cafe">>, name |-> <<"x">>], Coordinate(5, 5))}

PolygonPool == {Feature(6, [landuse |-> <<"grass">>, name |-> <<"y">>], RingCoords)}

\* Longest list of a collection.
MaxListLen == 2

Collections ==
    {GeoDataCollection(b, r, p, g, t) :
        b \in Strings(BuildingPool, 1), r \in Strings(RoadPool, MaxListLen),
        p \in Strings(PointPool, MaxListLen), g \in Strings(PolygonPool, 1),
        t \in {0, 5}}

\* The constraints of filter_by_tags: none, one pair, two pairs, a pair
\* whose value no feature has.
TagConstraints ==
    {EmptyDict,
     [amenity |-> <<"cafe">>],
     [name |-> <<"x">>],
     [amenity |-> <<"cafe">>, name |-> <<"x">>],
     [highway |-> <<"primary">>, name |-> <<"y">>]}

\* The boxes of filter_by_bounds besides the receiver's own: around the
\* ring, the single point (5, 5), and one that holds no coordinate.
Boxes ==
    {BoundingBox(0, 0, 2, 2), BoundingBox(5, 5, 5, 5), BoundingBox(6, 6, 9, 9)}

\* The collection built last.
Self == GeoDataCollection(buildings, roads, points, polygons, terrain_elevation)

\* No collection is built before the first call.
InitCollection ==
    /\ ServicesInit
    /\ op = "idle"
    /\ arg = NoRet
    /\ ret = NoRet
    /\ buildings = << >> /\ roads = << >> /\ points = << >> /\ polygons = << >>
    /\ terrain_elevation = 0
    /\ elevation_cache = EmptyDict
    /\ elevation_calls = 0
    /\ provider_requests = << >>

\* The state after the caller's statements ended in outcome out, the
\* collection being `self` if it was built.
Called(name, a, out, self) ==
    /\ op' = name
    /\ arg' = a
    /\ ret' = out
    /\ buildings' = self.buildings /\ roads' = self.roads
    /\ points' = self.points /\ polygons' = self.polygons
    /\ terrain_elevation' = self.terrain_elevation
    /\ UNCHANGED <<elevation_cache, elevation_calls, provider_requests>>
    /\ UNCHANGED services

\* import models.geo_data; c = GeoDataCollection(...); c.filter_by_tags(tags)
FilterByTags ==
    /\ op = "idle"
    /\ \E c \in Collections, tags \in TagConstraints :
         \E imp \in {ImportGeoData} :
            IF imp.kind = "raise"
            THEN Called("filter_by_tags", [self |-> c, tags |-> tags], imp, Self)
            ELSE \E r \in {filter_by_tags(c, tags)} :
                    Called("filter_by_tags", [self |-> c, tags |-> tags],
                           Return(r.result), r.self)

\* ... c.filter_by_bounds(bounds), also with bounds = c.get_bounds()
FilterByBounds ==
    /\ op = "idle"
    /\ \E c \in Collections, own \in BOOLEAN, box \in Boxes :
         \E imp \in {ImportGeoData} :
            IF imp.kind = "raise"
            THEN Called("filter_by_bounds", [self |-> c, own |-> own, bounds |-> box],
                        imp, Self)
            ELSE \E bounds \in {IF own THEN get_bounds(c) ELSE box} :
                 \E r \in {filter_by_bounds(c, bounds)} :
                    Called("filter_by_bounds",
                           [self |-> c, own |-> own, bounds |-> bounds],
                           Return(r.result), r.self)

\* ... c.get_bounds()
GetBounds ==
    /\ op = "idle"
    /\ \E c \in Collections :
         \E imp \in {ImportGeoData} :
            IF imp.kind = "raise"
            THEN Called("get_bounds", [self |-> c], imp, Self)
            ELSE Called("get_bounds", [self |-> c], Return(get_bounds(c)), c)

\* The caller goes on to its next statements.
GoOn ==
    /\ op \in {"filter_by_tags", "filter_by_bounds", "get_bounds"}
    /\ op' = "idle"
    /\ arg' = NoRet
    /\ ret' = NoRet
    /\ UNCHANGED <<lists, terrain_elevation>>
    /\ UNCHANGED <<elevation_cache, elevation_calls, provider_requests>>
    /\ UNCHANGED services

NextCollection == FilterByTags \/ FilterByBounds \/ GetBounds \/ GoOn

SpecCollection == InitCollection /\ [][NextCollection]_vars

(* Claims on the filters and the bounds.                                   *)

FeatureLists == {"buildings", "roads", "points", "polygons"}

\* The positions of list l of the receiver that the constraint matches.
Matching(l) ==
    {i \in 1..Len(arg.self[l]) :
        \A key \in DOMAIN arg.tags :
            key \in DOMAIN arg.self[l][i].tags
            /\ arg.self[l][i].tags[key] = arg.tags[key]}

\* sub holds exactly the entries of list at the positions of S, in order.
IsSublistAt(sub, list, S) ==
    /\ Len(sub) = Cardinality(S)
    /\ \E pos \in [1..Len(sub) -> S] :
         /\ \A i, j \in 1..Len(sub) : i < j => pos[i] < pos[j]
         /\ \A i \in 1..Len(sub) : sub[i] = list[pos[i]]

\* C21: filter_by_tags returns a collection that keeps exactly the features
\* whose tags hold every requested key with an equal value, in their
\* original order, and with an empty constraint the returned collection
\* equals the input collection.
C21_FilterByTagsKeepsAllMatching ==
    op = "filter_by_tags" =>
        /\ ret.kind = "return"
        /\ \A l \in FeatureLists : IsSublistAt(ret.val[l], arg.self[l], Matching(l))
        /\ arg.tags = EmptyDict => ret.val = arg.self

\* The positions of list l of the receiver with a coordinate inside the box.
Inside(l) ==
    {i \in 1..Len(arg.self[l]) :
        IF l = "points"
        THEN contains(arg.bounds, arg.self[l][i].coordinate)
        ELSE \E k \in 1..Len(arg.self[l][i].coordinates) :
                contains(arg.bounds, arg.self[l][i].coordinates[k])}

\* C22: filter_by_bounds returns a collection that keeps exactly the
\* features with at least one coordinate inside the box, bounds included,
\* and filtering a collection by its own bounds returns as many buildings,
\* roads, points and polygons as it has.
C22_FilterByOwnBoundsKeepsAll ==
    op = "filter_by_bounds" =>
        /\ ret.kind = "return"
        /\ \A l \in FeatureLists : IsSublistAt(ret.val[l], arg.self[l], Inside(l))
        /\ arg.own => \A l \in FeatureLists : Len(ret.val[l]) = Len(arg.self[l])

\* C23: filter_by_tags and filter_by_bounds return a new collection with
\* the receiver's terrain_elevation and leave the receiver's four lists and
\* terrain_elevation as they were.
C23_FiltersLeaveReceiverUnchanged ==
    op \in {"filter_by_tags", "filter_by_bounds"} =>
        /\ ret.kind = "return"
        /\ ret.val.terrain_elevation = arg.self.terrain_elevation
        /\ Self = arg.self

\* C24: get_bounds returns the box of the coordinate-wise minimum and
\* maximum over every coordinate of the collection, so min <= max on each
\* axis and every coordinate is inside, and the box (-0.01, -0.01, 0.01,
\* 0.01) for a collection without coordinates.
C24_BoundsAreMinMax ==
    op = "get_bounds" =>
        /\ ret.kind = "return"
        /\ LET all == AllCoords(arg.self)
           IN  IF all = << >> THEN ret.val = BoundingBox(-1, -1, 1, 1)
               ELSE /\ ret.val.min_lon <= ret.val.max_lon
                    /\ ret.val.min_lat <= ret.val.max_lat
                    /\ \A i \in 1..Len(all) :
                         /\ contains(ret.val, all[i])
                         /\ ret.val.min_lon <= all[i].lon /\ all[i].lon <= ret.val.max_lon
                    /\ \E i \in 1..Len(all) : all[i].lon = ret.val.min_lon
                    /\ \E i \in 1..Len(all) : all[i].lon = ret.val.max_lon
                    /\ \E i \in 1..Len(all) : all[i].lat = ret.val.min_lat
                    /\ \E i \in 1..Len(all) : all[i].lat = ret.val.max_lat

-----------------------------------------------------------------------------
(* The colour scale (src/utils/visualization.py).  Values are integers; a  *)
(* quotient of two of them is the fraction [num, den] with den > 0, and    *)
(* the arithmetic on fractions is exact.  A colour is a list of integers.  *)

\* a / b for b # 0
Frac(a, b) == IF b < 0 THEN [num |-> -a, den |-> -b] ELSE [num |-> a, den |-> b]

\* int(a / d) for d > 0: truncation towards zero.
Trunc(a, d) == IF a >= 0 THEN a \div d ELSE -((-a) \div d)

\* max(0, min(1, normalized))
Clamp(normalized) ==
    IF normalized.num < 0 THEN Frac(0, 1)
    ELSE IF normalized.num > normalized.den THEN Frac(1, 1)
    ELSE normalized

\* A variant with the two weights exchanged.
InterpolateSwapped(weight, lower, upper) ==
    [c \in 1..Len(lower) |->
        Trunc(weight.num * lower[c] + (weight.den - weight.num) * upper[c], weight.den)]

\* [int(c) for c in (1 - weight) * lower + weight * upper]
Interpolate(weight, lower, upper) ==
    [c \in 1..Len(lower) |->
        Trunc((weight.den - weight.num) * lower[c] + weight.num * upper[c], weight.den)]

\* The fixed alpha appended to the colour.
Alpha == 255

get_color_for_value(value, min_value, max_value, colors) ==
    LET value_range == max_value - min_value
        normalized  == Clamp(IF value_range = 0 THEN Frac(1, 2)
                             ELSE Frac(value - min_value, value_range))
        color_index == Frac(normalized.num * (Len(colors) - 1), normalized.den)
        lower_idx   == Trunc(color_index.num, color_index.den)
        upper_idx   == IF lower_idx + 1 < Len(colors) - 1 THEN lower_idx + 1
                       ELSE Len(colors) - 1
        weight      == Frac(color_index.num - lower_idx * color_index.den,
                            color_index.den)
    IN  Return(Interpolate(weight, colors[lower_idx + 1], colors[upper_idx + 1])
               \o <<Alpha>>)

\* The dict returned by generate_color_scale: its two functions.
generate_color_scale(min_value, max_value, color_range) ==
    LET value_range == IF max_value - min_value = 0 THEN 1 ELSE max_value - min_value
    IN  [min_value |-> min_value, max_value |-> max_value, colors |-> color_range,
         value_range |-> value_range]

\* scale["normalize"](x)
normalize(scale, x) == Return(Frac(x - scale.min_value, scale.value_range))

\* scale["get_color"](x)
get_color(scale, x) ==
    get_color_for_value(x, scale.min_value, scale.max_value, scale.colors)

-----------------------------------------------------------------------------
(* SpecColor: colour scales of up to MaxAnchors anchors over domains       *)
(* within 0..MaxValue, asked for the colour and the normalized position of *)
(* values inside and one step outside that span.                           *)

\* Most anchors of a colour scale.
MaxAnchors == 3

\* Largest bound of a domain.
MaxValue == 2

AnchorColors == {<<10, 20, 30>>, <<110, 120, 130>>, <<250, 0, 7>>}

ColorRanges == Strings(AnchorColors, MaxAnchors) \ {<< >>}

Scales ==
    {generate_color_scale(lo, hi, colors) :
        lo \in 0..MaxValue, hi \in 0..MaxValue, colors \in ColorRanges}

Values == -1..(MaxValue + 1)

\* The state after a function of the scale returned.
Scaled(name, scale, x, out) ==
    /\ op' = name
    /\ arg' = [scale |-> scale, x |-> x]
    /\ ret' = out
    /\ UNCHANGED <<lists, terrain_elevation, elevation_cache, elevation_calls,
                   provider_requests>>
    /\ UNCHANGED services

\* generate_color_scale(lo, hi, colors)["get_color"](x)
GetColor ==
    /\ op = "idle"
    /\ \E scale \in Scales, x \in Values :
         /\ scale.min_value <= scale.max_value
         /\ Scaled("get_color", scale, x, get_color(scale, x))

\* generate_color_scale(lo, hi, colors)["normalize"](x)
Normalize ==
    /\ op = "idle"
    /\ \E scale \in Scales, x \in Values :
         /\ scale.min_value <= scale.max_value
         /\ Scaled("normalize", scale, x, normalize(scale, x))

NextColor == GetColor \/ Normalize \/ Rerun

SpecColor == Init /\ [][NextColor]_vars

(* Claims on the colour scale.                                             *)

FirstAnchor == arg.scale.colors[1] \o <<255>>

LastAnchor == arg.scale.colors[Len(arg.scale.colors)] \o <<255>>

\* C25: on a scale with min_value < max_value, get_color gives the first
\* anchor with alpha 255 at min_value and for every value below it, and the
\* last anchor with alpha 255 at max_value and for every value above it.
C25_EndsGiveEndAnchors ==
    (op = "get_color" /\ arg.scale.min_value < arg.scale.max_value) =>
        /\ arg.x <= arg.scale.min_value => ret = Return(FirstAnchor)
        /\ arg.x >= arg.scale.max_value => ret = Return(LastAnchor)

\* A value above max_value on a scale of three different anchors gave the
\* last of them.
C25_Witness ==
    /\ op = "get_color"
    /\ arg.scale.min_value < arg.scale.max_value
    /\ arg.x > arg.scale.max_value
    /\ Len(arg.scale.colors) = 3
    /\ arg.scale.colors[3] # arg.scale.colors[2]
    /\ arg.scale.colors[3] # arg.scale.colors[1]
    /\ ret = Return(LastAnchor)

\* min_value itself gave the first of two different anchors.
C25_WitnessMin ==
    /\ op = "get_color"
    /\ arg.scale.min_value < arg.scale.max_value
    /\ arg.x = arg.scale.min_value
    /\ Len(arg.scale.colors) = 2
    /\ arg.scale.colors[1] # arg.scale.colors[2]
    /\ ret = Return(FirstAnchor)

\* C26: the normalize function of a scale maps every value into [0, 1]:
\* values below min_value give 0, values above max_value give 1, and every
\* value gives 0.5 when min_value equals max_value.
C26_NormalizeClampsToUnit ==
    op = "normalize" =>
        /\ ret.kind = "return"
        /\ 0 <= ret.val.num /\ ret.val.num <= ret.val.den
        /\ arg.x < arg.scale.min_value => ret.val.num = 0
        /\ arg.x > arg.scale.max_value => ret.val.num = ret.val.den
        /\ arg.scale.min_value = arg.scale.max_value => 2 * ret.val.num = ret.val.den

-----------------------------------------------------------------------------
(* SpecTwice: process_overpass_results run twice in a row on the same raw  *)
(* response, the provider stubbed with one answer for both runs,           *)
(* elevation_cache living on from run to run.                              *)

\* A closed ring whose first two vertices are 4e-6 degree apart: they share
\* a cache key, and the terrain differs between them.
TightRing == <<[lat |-> 0, lon |-> 0], [lat |-> 0, lon |-> 4],
               [lat |-> 0, lon |-> 10], [lat |-> 0, lon |-> 0]>>

TightBuilding(id) ==
    [type |-> <<"way">>, id |-> id, nodes |-> <<1, 2, 3, 1>>, geometry |-> TightRing,
     tags |-> [building |-> <<"yes">>]]

\* Raw responses of at most two elements: buildings on either ring, cafes.
TwiceResponses ==
    {[elements |-> [i \in 1..Len(kinds) |->
                       IF kinds[i] = "tight" THEN TightBuilding(i)
                       ELSE ElementOf(kinds[i], i)]] :
        kinds \in Strings({"building", "tight", "cafe"}, 2)}

\* first = process_overpass_results(data); second = process_overpass_results(data)
RunTwice ==
    /\ op = "idle"
    /\ \E data \in TwiceResponses, resp \in ElevationResponses :
         \E r1 \in {process_overpass_results(data, Num(1), elevation_cache, resp)} :
         \E r2 \in {process_overpass_results(data, Num(1), r1.cache, resp)} :
            /\ op' = "run_twice"
            /\ arg' = [data |-> data, resp |-> resp, cache |-> elevation_cache,
                       first |-> r1.out, requests |-> r1.requests]
            /\ ret' = r2.out
            /\ buildings' = r2.L.buildings
            /\ roads' = r2.L.roads
            /\ points' = r2.L.points
            /\ polygons' = r2.L.polygons
            /\ elevation_cache' = r2.cache
            /\ elevation_calls' = r1.calls + r2.calls
            /\ provider_requests' = r2.requests
    /\ UNCHANGED terrain_elevation
    /\ UNCHANGED services

NextTwice == RunTwice \/ Rerun

SpecTwice == Init /\ [][NextTwice]_vars

\* C27: the second of two runs on the same raw response, with the same
\* height factor and the same stubbed provider, returns a collection
\* identical to the first, terrain_elevation included, whatever the first
\* run left in the elevation cache.
C27_SecondRunIdentical ==
    op = "run_twice" => ret = arg.first

-----------------------------------------------------------------------------
(* Claims on what get_elevation_data caches (SpecElevation).               *)

\* The number of elevations the provider's body gave for the request.
Delivered ==
    LET n == Cardinality({j \in 1..Len(Kept) : ~WasCached(Kept[j])})
    IN  CASE arg.resp.kind = "ok" -> IF n >= arg.resp.short THEN n - arg.resp.short ELSE 0
          [] arg.resp.kind = "garbled" -> IF arg.resp.good < n THEN arg.resp.good ELSE n
          [] OTHER -> 0

\* The elevation of kept coordinate i was returned by the provider.
FromProvider(i) == ~WasCached(Kept[i]) /\ MissRank(i) <= Delivered

\* Slot i of the result is a fallback 0: a cache miss the provider returned
\* no elevation for.
FallbackZero(i) == ~WasCached(Kept[i]) /\ ~FromProvider(i)

\* C28: a call adds a cache entry only for a coordinate whose elevation the
\* provider returned, and no coordinate filled with a fallback 0 has an
\* entry afterwards, so a later call asks for it again.
C28_FallbackZerosNotCached ==
    ElevationDone =>
        /\ \A k \in DOMAIN elevation_cache \ DOMAIN arg.cache :
             \E i \in 1..Len(Kept) : FromProvider(i) /\ cache_key(Kept[i]) = k
        /\ \A i \in 1..Len(Kept) :
             FallbackZero(i) => cache_key(Kept[i]) \notin DOMAIN elevation_cache

-----------------------------------------------------------------------------
(* Claims on the lifetime of query-cache entries (SpecRetry).              *)

\* The entries stored for the query when the call began.
StoredFor == {arg.cache[i] : i \in {j \in 1..Len(arg.cache) : arg.cache[j].query = arg.query}}

\* The seconds since such an entry was stored.
Age(e) == arg.now - e.timestamp

\* The call ended in the answer 200 with a readable body.
Succeeded ==
    /\ provider_requests # << >>
    /\ arg.answers[Len(arg.answers)].kind = "http"
    /\ arg.answers[Len(arg.answers)].status = 200
    /\ arg.answers[Len(arg.answers)].body # "not json"

\* C29: a query_overpass call for a query stored less than CACHE_TTL
\* seconds ago returns the stored data without a request and leaves the
\* cache as it is; a call for a query stored CACHE_TTL seconds ago or more,
\* or not stored, sends a request; the cache changes only by storing the
\* data a successful answer returned, and a failed call leaves it unchanged.
C29_FreshHitStaleRefetch ==
    op = "query_overpass" =>
        /\ \A e \in StoredFor :
             IF Age(e) < CACHE_TTL
             THEN ret = Return(e.data) /\ provider_requests = << >>
                  /\ query_cache = arg.cache
             ELSE provider_requests # << >>
        /\ StoredFor = {} => provider_requests # << >>
        /\ query_cache # arg.cache =>
             /\ Succeeded
             /\ ret.kind = "return"
             /\ \E i \in 1..Len(query_cache) :
                  query_cache[i] = [query |-> arg.query, data |-> ret.val,
                                    timestamp |-> now]
        /\ (ret.kind = "raise" \/ ret = Return(None)) => query_cache = arg.cache

\* An entry exactly CACHE_TTL seconds old was fetched again and replaced.
C29_Witness ==
    /\ op = "query_overpass"
    /\ \E e \in StoredFor : Age(e) = CACHE_TTL
    /\ provider_requests # << >>
    /\ Succeeded
    /\ query_cache # arg.cache

\* An entry one second old was served without a request.
C29_WitnessFresh ==
    /\ op = "query_overpass"
    /\ \E e \in StoredFor : Age(e) = 1 /\ ret = Return(e.data)
    /\ provider_requests = << >>

\* A failed call for a stale entry left the entry in the cache.
C29_WitnessFailedStale ==
    /\ op = "query_overpass"
    /\ \E e \in StoredFor : Age(e) >= CACHE_TTL
    /\ ret = Return(None)
    /\ query_cache = arg.cache

-----------------------------------------------------------------------------
(* SpecLists: process_overpass_results called again and again on raw       *)
(* responses of up to MAX_FEATURES + 1 nodes, ways and relations, the      *)
(* provider answering every elevation request in full.                     *)

MixedKinds == {"building", "road", "cafe", "park", "relation"}

MixedResponses ==
    {[elements |-> [i \in 1..Len(kinds) |-> ElementOf(kinds[i], i)]] :
        kinds \in Strings(MixedKinds, MAX_FEATURES + 1)}

\* process_overpass_results(data) on a mixed response.
ProcessMixed ==
    /\ op = "idle"
    /\ \E data \in MixedResponses, resp \in {r \in Responses : r.kind = "ok" /\ r.short = 0} :
         /\ arg' = CallArg(data, resp)
         /\ Processed(data, Num(1), resp)

NextLists == ProcessMixed \/ Rerun

SpecLists == Init /\ [][NextLists]_vars

(* Claims on the four lists of the whole response.                         *)

\* The type of the input element with the id.
TypeOf(id) == arg.data["elements"][id]["type"]

\* The number of features returned.
Total ==
    Len(ret.val.buildings) + Len(ret.val.roads) + Len(ret.val.points)
    + Len(ret.val.polygons)

\* C30: every input element contributes at most one feature, to one list
\* only: nodes to points, ways to buildings, roads or polygons, relations
\* to none; every list keeps the order of the source elements, and there
\* are at most min(number of elements, MAX_FEATURES) features in all.
C30_OneFeaturePerElement ==
    (ResultsDone /\ ~Unusable) =>
        /\ ret.kind = "return"
        /\ Total = Cardinality(ReturnedIds)
        /\ ReturnedIds \subseteq 1..Len(arg.data["elements"])
        /\ \A i \in 1..Len(ret.val.points) :
             TypeOf(ret.val.points[i].element_id) = <<"node">>
        /\ \A l \in {"buildings", "roads", "polygons"} :
             \A i \in 1..Len(ret.val[l]) : TypeOf(ret.val[l][i].element_id) = <<"way">>
        /\ \A l \in {"buildings", "roads", "points", "polygons"} :
             Increasing(Ids(ret.val[l]))
        /\ Total <= Len(arg.data["elements"])
        /\ Total <= MAX_FEATURES

\* A relation with a building tag and a closed building way: the relation
\* made no feature and the way made one building and nothing else.
C30_Witness ==
    /\ ResultsDone /\ ~Unusable
    /\ Len(arg.data["elements"]) = 2
    /\ TypeOf(1) = <<"relation">>
    /\ arg.data["elements"][2] = ElementOf("building", 2)
    /\ ReturnedIds = {2}
    /\ Len(ret.val.buildings) = 1 /\ Total = 1

\* A closed way without building or highway tag and a node: one polygon and
\* one point.
C30_WitnessPolygonAndPoint ==
    /\ ResultsDone /\ ~Unusable
    /\ Len(arg.data["elements"]) = 3
    /\ Len(ret.val.polygons) = 1 /\ Len(ret.val.points) = 1
    /\ ret.val.polygons[1].element_id = 1 /\ ret.val.points[1].element_id = 2
    /\ Total = 2

=============================================================================
